---- MODULE Spec2Model ----
(***************************************************************************)
(* KeyboardJockey: keyboard-driven pointer addressing and window switching *)
(* (src/KeyboardJockey.cpp).                                               *)
(*                                                                         *)
(* Characters are modelled by their code points (L'a' = 97, L'A' = 65,     *)
(* L'*' = 42), strings (labels, titles, typed buffers) by sequences of     *)
(* code points, RECTs by records [left, top, right, bottom], POINTs by     *)
(* records [x, y], window handles by positive integers (NULL = 0).         *)
(***************************************************************************)
EXTENDS Integers, Sequences, FiniteSets, TLC

VARIABLES
    \* ---- process globals (src/KeyboardJockey.cpp:150-217) ----
    g_bGridVisible,         \* overlay shown
    g_bMouseMoveMode,       \* arrow-key mode
    g_bCursorHidden,        \* cursor hidden via Space / typing
    g_bScrollMode,          \* PgUp/PgDn scroll-through mode
    g_hScrollMouseHook,     \* scroll-mode mouse hook installed (BOOLEAN)
    g_bTabTextMode,         \* "all windows" flag
    g_typedChars,           \* address buffer
    g_gridMap,              \* label -> center
    g_monitors,             \* MonitorInfo list
    g_cells,                \* GridCell list
    g_appWindows,           \* displayed non-minimized windows
    g_allAppWindows,        \* full catalog of non-minimized windows
    g_minimizedWindows,     \* displayed minimized windows
    g_allMinimizedWindows,  \* full catalog of minimized windows
    g_highlightIndex,       \* -1 = none
    g_tabSearchStr,         \* selector filter
    \* ---- operating environment ----
    sysMonitors,            \* what EnumDisplayMonitors reports
    sysWindows,             \* what EnumWindows reports, front to back
    cursorPos,              \* pointer position (SetCursorPos/GetCursorPos)
    timerReset,             \* TIMER_ID_RESET armed on the overlay window
    timerTabText,           \* TIMER_ID_TAB_TEXT armed on the overlay window
    exTransparent,          \* WS_EX_TRANSPARENT set on the overlay window
    lastMsg,                \* the message handled by the last step
    lastOut,                \* the request issued by the last step
    nArrow,                 \* arrow-key presses so far (bounded)
    env,                    \* the environment explored (fixed per behaviour)
    \* ---- a procedure executed statement by statement ----
    pc,                     \* position in the procedure ("off": none running)
    bMon,                   \* BuildGridCells: 1-based position of `mon`
    gridCols, gridRows,     \* BuildGridCells: locals
    bRow, bCol, bIndex,     \* BuildGridCells: row, col, index
    \* ---- the cursor and the detached animation threads ----
    g_bCursorAnimating,     \* true during the cursor shrink animation
    sysCursors,             \* what SetSystemCursor / SPI_SETCURSORS installed
    anim                    \* per thread: position and loop counter i

vars == << g_bGridVisible, g_bMouseMoveMode, g_bCursorHidden, g_bScrollMode,
           g_hScrollMouseHook, g_bTabTextMode, g_typedChars, g_gridMap,
           g_monitors, g_cells, g_appWindows, g_allAppWindows,
           g_minimizedWindows, g_allMinimizedWindows, g_highlightIndex,
           g_tabSearchStr, sysMonitors, sysWindows, cursorPos, timerReset,
           timerTabText, exTransparent, lastMsg, lastOut, nArrow, env,
           pc, bMon, gridCols, gridRows, bRow, bCol, bIndex,
           g_bCursorAnimating, sysCursors, anim >>

\* the animation threads alive at once are bounded
MaxThreads == 2
Threads == 1..MaxThreads

cursorVars == << g_bCursorAnimating, sysCursors, anim >>

\* the system cursor set: "default", "blank", or "scaled" to size pixels
Cursors(kind, size) == [kind |-> kind, size |-> size]

\* the cursor state at start-up: default cursors, no animation thread
CursorInit ==
    /\ g_bCursorAnimating = FALSE
    /\ sysCursors = Cursors("default", 0)
    /\ anim = [t \in Threads |-> [pc |-> "free", i |-> 0]]

(***************************************************************************)
(* Program constants                                                       *)
(***************************************************************************)
TARGET_CELL_SIZE_DIP == 86
DEFAULT_DPI == 96

(***************************************************************************)
(* Bounds of the model                                                     *)
(***************************************************************************)
MaxSearchLen == 2       \* longest selector filter explored
MaxArrow == 1           \* arrow-key presses explored per behaviour

(***************************************************************************)
(* C++ helpers                                                             *)
(***************************************************************************)
\* int division truncates toward zero
CDiv(a, b) == IF a >= 0 THEN a \div b ELSE -((-a) \div b)

Max2(a, b) == IF a > b THEN a ELSE b

towlower(c) == IF c >= 65 /\ c <= 90 THEN c + 32 ELSE c

Rect(l, t, r, b) == [left |-> l, top |-> t, right |-> r, bottom |-> b]
Point(px, py) == [x |-> px, y |-> py]

RECURSIVE SeqSum(_)
SeqSum(s) == IF s = << >> THEN 0 ELSE Head(s) + SeqSum(Tail(s))

RECURSIVE SelectSeqBy(_, _)
\* elements of s whose index is in keep, in order
SelectSeqBy(s, keep) ==
    IF s = << >> THEN << >>
    ELSE LET n == Len(s)
             front == SelectSeqBy(SubSeq(s, 1, n - 1), keep)
         IN IF n \in keep THEN Append(front, s[n]) ELSE front

(***************************************************************************)
(* Grid Builder                                                            *)
(***************************************************************************)
\* GridMonitorEnumProc: one MonitorInfo per reported monitor; the prefix is
\* L'a' + (wchar_t)vec->size(), a 16-bit character
GridMonitorEnumProc(vec, m) ==
    Append(vec, [rcMonitor |-> m.rc,
                 dpiX |-> IF m.dpiFailed THEN DEFAULT_DPI ELSE m.dpi,
                 prefix |-> (97 + Len(vec)) % 65536])

RECURSIVE EnumDisplayMonitors(_, _)
EnumDisplayMonitors(vec, sys) ==
    IF sys = << >> THEN vec
    ELSE EnumDisplayMonitors(GridMonitorEnumProc(vec, Head(sys)), Tail(sys))

\* GenerateLabel with the two index letters exchanged
GenerateLabel_Swapped(monitorPrefix, index) ==
    LET first == CDiv(index, 26)
        second == index % 26
    IN IF first < 26 THEN << monitorPrefix, 97 + second, 97 + first >>
       ELSE << monitorPrefix >>

\* GenerateLabel, were the monitor's prefix left out of the label
GenerateLabel_NoPrefix(monitorPrefix, index) ==
    LET first == CDiv(index, 26)
        second == index % 26
    IN IF first < 26 THEN << 97, 97 + first, 97 + second >>
       ELSE << 97 >>

GenerateLabel(monitorPrefix, index) ==
    LET first == CDiv(index, 26)
        second == index % 26
    IN IF first < 26 THEN << monitorPrefix, 97 + first, 97 + second >>
       ELSE << monitorPrefix >>

MonWidth(mon) == mon.rcMonitor.right - mon.rcMonitor.left
MonHeight(mon) == mon.rcMonitor.bottom - mon.rcMonitor.top
TargetCellPx(mon) == CDiv(TARGET_CELL_SIZE_DIP * mon.dpiX, DEFAULT_DPI)

InitialCols(mon) == Max2(1, CDiv(MonWidth(mon), TargetCellPx(mon)))
InitialRows(mon) == Max2(1, CDiv(MonHeight(mon), TargetCellPx(mon)))

\* one iteration of the capping loop body
CapStep(cr) ==
    IF cr[1] > cr[2] THEN << cr[1] - 1, cr[2] >> ELSE << cr[1], cr[2] - 1 >>

\* the capping loop's condition, were the limit 27 x 26
NeedsCap_Limit702(cr) == cr[1] * cr[2] > 702

\* the capping loop's condition
NeedsCap(cr) == cr[1] * cr[2] > 676

RECURSIVE CapLoop(_)
CapLoop(cr) == IF NeedsCap(cr) THEN CapLoop(CapStep(cr)) ELSE cr
\* MakeCell with sub-cells of half the cell's width and height instead of a
\* third: the third column and row of sub-points leave the cell.
MakeCell_HalfSubCells(mon, cols, rows, row, col, index) ==
    LET cellWidth == CDiv(MonWidth(mon), cols)
        cellHeight == CDiv(MonHeight(mon), rows)
        subWidth == CDiv(cellWidth, 2)
        subHeight == CDiv(cellHeight, 2)
        l == mon.rcMonitor.left + col * cellWidth
        t == mon.rcMonitor.top + row * cellHeight
    IN [rect |-> Rect(l, t, l + cellWidth, t + cellHeight),
        label |-> GenerateLabel(mon.prefix, index),
        center |-> Point(l + CDiv(cellWidth, 2), t + CDiv(cellHeight, 2)),
        subPoints |-> [subIdx \in 0..8 |->
            Point(l + (subIdx % 3) * subWidth + CDiv(subWidth, 2),
                  t + CDiv(subIdx, 3) * subHeight + CDiv(subHeight, 2))],
        gridRow |-> row, gridCol |-> col]

\* the GridCell, were the cell size rounded up
MakeCell_RoundsUp(mon, cols, rows, row, col, index) ==
    LET cellWidth == CDiv(MonWidth(mon) + cols - 1, cols)
        cellHeight == CDiv(MonHeight(mon) + rows - 1, rows)
        subWidth == CDiv(cellWidth, 3)
        subHeight == CDiv(cellHeight, 3)
        l == mon.rcMonitor.left + col * cellWidth
        t == mon.rcMonitor.top + row * cellHeight
    IN [rect |-> Rect(l, t, l + cellWidth, t + cellHeight),
        label |-> GenerateLabel(mon.prefix, index),
        center |-> Point(l + CDiv(cellWidth, 2), t + CDiv(cellHeight, 2)),
        subPoints |-> [subIdx \in 0..8 |->
            Point(l + (subIdx % 3) * subWidth + CDiv(subWidth, 2),
                  t + CDiv(subIdx, 3) * subHeight + CDiv(subHeight, 2))],
        gridRow |-> row, gridCol |-> col]

\* the GridCell pushed for (row, col) with running index `index`
MakeCell(mon, cols, rows, row, col, index) ==
    LET cellWidth == CDiv(MonWidth(mon), cols)
        cellHeight == CDiv(MonHeight(mon), rows)
        subWidth == CDiv(cellWidth, 3)
        subHeight == CDiv(cellHeight, 3)
        l == mon.rcMonitor.left + col * cellWidth
        t == mon.rcMonitor.top + row * cellHeight
    IN [rect |-> Rect(l, t, l + cellWidth, t + cellHeight),
        label |-> GenerateLabel(mon.prefix, index),
        center |-> Point(l + CDiv(cellWidth, 2), t + CDiv(cellHeight, 2)),
        subPoints |-> [subIdx \in 0..8 |->
            Point(l + (subIdx % 3) * subWidth + CDiv(subWidth, 2),
                  t + CDiv(subIdx, 3) * subHeight + CDiv(subHeight, 2))],
        gridRow |-> row, gridCol |-> col]

\* the cells of one monitor, row-major, index = row * cols + col
MonitorCells(mon) ==
    LET cr == CapLoop(<< InitialCols(mon), InitialRows(mon) >>)
        cols == cr[1]
        rows == cr[2]
    IN [k \in 1..(cols * rows) |->
          MakeCell(mon, cols, rows, CDiv(k - 1, cols), (k - 1) % cols, k - 1)]

RECURSIVE AllCells(_)
AllCells(mons) ==
    IF mons = << >> THEN << >>
    ELSE AllCells(SubSeq(mons, 1, Len(mons) - 1)) \o MonitorCells(mons[Len(mons)])

\* g_gridMap[cell.label] = cell.center, executed in push order: a later cell
\* with the same label overwrites an earlier one
GridMapOf(cells) ==
    [lab \in {cells[i].label : i \in DOMAIN cells} |->
        LET last == CHOOSE i \in DOMAIN cells :
                      /\ cells[i].label = lab
                      /\ \A j \in DOMAIN cells : cells[j].label = lab => j <= i
        IN cells[last].center]


(***************************************************************************)
(* Window Catalog                                                          *)
(***************************************************************************)
\* A GDI region is kept as a list of pairwise disjoint rectangles.
RectArea(r) == (r.right - r.left) * (r.bottom - r.top)

\* r minus a: the bands of r above and below a, and the parts of the middle
\* band left and right of a
RectDiff(r, a) ==
    LET il == Max2(r.left, a.left)
        it == Max2(r.top, a.top)
        ir == IF r.right < a.right THEN r.right ELSE a.right
        ib == IF r.bottom < a.bottom THEN r.bottom ELSE a.bottom
    IN IF il >= ir \/ it >= ib THEN << r >>
       ELSE (IF it > r.top THEN << Rect(r.left, r.top, r.right, it) >> ELSE << >>)
         \o (IF il > r.left THEN << Rect(r.left, it, il, ib) >> ELSE << >>)
         \o (IF ir < r.right THEN << Rect(ir, it, r.right, ib) >> ELSE << >>)
         \o (IF ib < r.bottom THEN << Rect(r.left, ib, r.right, r.bottom) >> ELSE << >>)

RECURSIVE CombineRgnDiff(_, _)
\* CombineRgn(hRgn, hRgn, hAbove, RGN_DIFF)
CombineRgnDiff(rgn, a) ==
    IF rgn = << >> THEN << >>
    ELSE RectDiff(Head(rgn), a) \o CombineRgnDiff(Tail(rgn), a)

RECURSIVE SubtractAbove(_, _, _)
\* for (j = 0; j < i; j++) subtract g_appWindows[j].rect
SubtractAbove(rgn, wins, j) ==
    IF j > Len(wins) THEN rgn
    ELSE SubtractAbove(CombineRgnDiff(rgn, wins[j].rect), wins, j + 1)

\* the area of the region's bounding box
RegionArea_BoundingBox(rgn) ==
    IF rgn = << >> THEN 0
    ELSE LET ks == DOMAIN rgn
             l == CHOOSE v \in { rgn[k].left : k \in ks } :
                      \A k \in ks : v <= rgn[k].left
             t == CHOOSE v \in { rgn[k].top : k \in ks } :
                      \A k \in ks : v <= rgn[k].top
             r == CHOOSE v \in { rgn[k].right : k \in ks } :
                      \A k \in ks : v >= rgn[k].right
             b == CHOOSE v \in { rgn[k].bottom : k \in ks } :
                      \A k \in ks : v >= rgn[k].bottom
         IN (r - l) * (b - t)

\* sum over the rectangles of GetRegionData
RegionArea(rgn) == SeqSum([k \in DOMAIN rgn |-> RectArea(rgn[k])])

\* visible area of the window at (1-based) position i of wins
VisibleArea(wins, i) ==
    RegionArea(SubtractAbove(<< wins[i].rect >>, SubSeq(wins, 1, i - 1), 1))

AppWindow(w, area) ==
    [hwnd |-> w.hwnd, rect |-> w.rect, title |-> w.title, visibleArea |-> area]

\* EnumWindowsProc: which reported windows are kept, and in which list
IsCandidate(w) ==
    /\ ~w.own
    /\ w.visible
    /\ Len(w.title) # 0
    /\ ~w.toolWindow

GoesToMinimized(w) == IsCandidate(w) /\ w.iconic

GoesToApp(w) ==
    /\ IsCandidate(w)
    /\ ~w.iconic
    /\ ~(w.rect.right - w.rect.left <= 0 \/ w.rect.bottom - w.rect.top <= 0)

EnumWindows(sys) ==
    [app |-> SelectSeqBy(sys, {i \in DOMAIN sys : GoesToApp(sys[i])}),
     min |-> SelectSeqBy(sys, {i \in DOMAIN sys : GoesToMinimized(sys[i])})]

Perms(n) == {p \in [1..n -> 1..n] : \A i, j \in 1..n : i # j => p[i] # p[j]}

\* The results std::sort may produce for the comparator
\* a.visibleArea > b.visibleArea: any ordering by descending area; the order
\* of entries with equal area is unspecified.
SortResults(seq) ==
    {[i \in DOMAIN seq |-> seq[p[i]]] : p \in
        {q \in Perms(Len(seq)) :
            \A i \in 1..(Len(seq) - 1) :
                seq[q[i]].visibleArea >= seq[q[i + 1]].visibleArea}}

\* remove_if(visibleArea <= 0) and the restore loops: entries with area > 0
VisibleOnly(seq) ==
    SelectSeqBy(seq, {i \in DOMAIN seq : seq[i].visibleArea > 0})

\* the app list with visibleArea filled in, before sorting
WithAreas(app) == [i \in DOMAIN app |-> AppWindow(app[i], VisibleArea(app, i))]

MinimizedList(min) == [i \in DOMAIN min |-> AppWindow(min[i], 0)]

\* EnumerateAppWindows; sorted is the outcome of std::sort
EnumerateAppWindows(s, sys, sorted) ==
    [s EXCEPT !.g_appWindows = VisibleOnly(sorted),
              !.g_allAppWindows = sorted,
              !.g_minimizedWindows = MinimizedList(EnumWindows(sys).min),
              !.g_allMinimizedWindows = MinimizedList(EnumWindows(sys).min)]

\* what std::sort may return for the current window list
SortChoices(sys) == SortResults(WithAreas(EnumWindows(sys).app))

\* case-insensitive substring test of FilterAppWindowsBySearch
Lower(str) == [i \in DOMAIN str |-> towlower(str[i])]

Contains(hay, needle) ==
    \E k \in 0..(Len(hay) - Len(needle)) :
        \A i \in 1..Len(needle) : hay[k + i] = needle[i]

TitleMatches(aw, search) == Contains(Lower(aw.title), Lower(search))

MatchingOnly(seq, search) ==
    SelectSeqBy(seq, {i \in DOMAIN seq : TitleMatches(seq[i], search)})

\* FilterAppWindowsBySearch, were the displayed lists filtered
FilterAppWindowsBySearch_Displayed(s) ==
    IF s.g_tabSearchStr = << >> THEN s
    ELSE LET app == MatchingOnly(s.g_appWindows, s.g_tabSearchStr)
             min == MatchingOnly(s.g_minimizedWindows, s.g_tabSearchStr)
         IN [s EXCEPT !.g_appWindows = app,
                      !.g_minimizedWindows = min,
                      !.g_highlightIndex =
                          IF app # << >> THEN 0
                          ELSE IF min # << >> THEN 0 ELSE -1]

FilterAppWindowsBySearch(s) ==
    IF s.g_tabSearchStr = << >> THEN s
    ELSE LET app == MatchingOnly(s.g_allAppWindows, s.g_tabSearchStr)
             min == MatchingOnly(s.g_allMinimizedWindows, s.g_tabSearchStr)
         IN [s EXCEPT !.g_appWindows = app,
                      !.g_minimizedWindows = min,
                      !.g_highlightIndex =
                          IF app # << >> THEN 0
                          ELSE IF min # << >> THEN 0 ELSE -1]

(***************************************************************************)
(* The dispatch thread's state as one record, so that a handler and the    *)
(* procedures it calls compose as functions from state to state.           *)
(***************************************************************************)
\* what a handler asks of the system: SetForegroundWindow (arg = hwnd),
\* SendClick, SendInput wheel (arg = multiples of WHEEL_DELTA)
Out(kind, arg) == [kind |-> kind, arg |-> arg]

Cur ==
    [g_bGridVisible |-> g_bGridVisible,
     g_bMouseMoveMode |-> g_bMouseMoveMode,
     g_bCursorHidden |-> g_bCursorHidden,
     g_bScrollMode |-> g_bScrollMode,
     g_hScrollMouseHook |-> g_hScrollMouseHook,
     g_bTabTextMode |-> g_bTabTextMode,
     g_typedChars |-> g_typedChars,
     g_appWindows |-> g_appWindows,
     g_allAppWindows |-> g_allAppWindows,
     g_minimizedWindows |-> g_minimizedWindows,
     g_allMinimizedWindows |-> g_allMinimizedWindows,
     g_highlightIndex |-> g_highlightIndex,
     g_tabSearchStr |-> g_tabSearchStr,
     cursorPos |-> cursorPos,
     timerReset |-> timerReset,
     timerTabText |-> timerTabText,
     exTransparent |-> exTransparent,
     lastOut |-> Out("none", 0)]

\* HideGrid, were the full list of non-minimized windows kept
HideGrid_KeepsCatalog(s) ==
    IF ~s.g_bGridVisible THEN s
    ELSE [s EXCEPT !.g_bGridVisible = FALSE,
                   !.g_bMouseMoveMode = FALSE,
                   !.g_typedChars = << >>,
                   !.g_appWindows = << >>,
                   !.g_minimizedWindows = << >>,
                   !.g_allMinimizedWindows = << >>,
                   !.g_highlightIndex = -1,
                   !.g_tabSearchStr = << >>,
                   !.g_bTabTextMode = FALSE,
                   !.timerTabText = FALSE,
                   !.g_bScrollMode = FALSE,
                   !.g_hScrollMouseHook =
                       IF s.g_bScrollMode THEN FALSE ELSE s.g_hScrollMouseHook]

\* HideGrid
HideGrid(s) ==
    IF ~s.g_bGridVisible THEN s
    ELSE [s EXCEPT !.g_bGridVisible = FALSE,
                   !.g_bMouseMoveMode = FALSE,
                   !.g_typedChars = << >>,
                   !.g_appWindows = << >>,
                   !.g_allAppWindows = << >>,
                   !.g_minimizedWindows = << >>,
                   !.g_allMinimizedWindows = << >>,
                   !.g_highlightIndex = -1,
                   !.g_tabSearchStr = << >>,
                   !.g_bTabTextMode = FALSE,
                   !.timerTabText = FALSE,
                   !.g_bScrollMode = FALSE,
                   !.g_hScrollMouseHook =
                       IF s.g_bScrollMode THEN FALSE ELSE s.g_hScrollMouseHook]

\* ExitScrollMode without its call of HideGrid: the overlay returns to the
\* mode scroll was entered from
ExitScrollMode_KeepsOverlay(s) ==
    IF ~s.g_bScrollMode THEN s
    ELSE [s EXCEPT !.g_bScrollMode = FALSE,
                   !.exTransparent = FALSE,
                   !.g_hScrollMouseHook = FALSE]

\* ExitScrollMode
ExitScrollMode(s) ==
    IF ~s.g_bScrollMode THEN s
    ELSE HideGrid([s EXCEPT !.g_bScrollMode = FALSE,
                            !.exTransparent = FALSE,
                            !.g_hScrollMouseHook = FALSE])

\* HideCursor, as far as the dispatch thread's flag goes
HideCursor(s) ==
    IF s.g_bCursorHidden THEN s ELSE [s EXCEPT !.g_bCursorHidden = TRUE]

\* RestoreCursor, as far as the dispatch thread's flag goes
RestoreCursor(s) ==
    IF ~s.g_bCursorHidden THEN s ELSE [s EXCEPT !.g_bCursorHidden = FALSE]

\* ShowGrid
ShowGrid(s) ==
    IF s.g_bGridVisible THEN s
    ELSE [s EXCEPT !.g_bCursorHidden = FALSE,
                   !.g_typedChars = << >>,
                   !.g_bMouseMoveMode = FALSE,
                   !.g_bGridVisible = TRUE]

\* MoveMouse
MoveMouse(s, pt) == [s EXCEPT !.cursorPos = pt]

\* GetSubPointIndex without the skip over index 4: e..h map to 4..7
GetSubPointIndex_NoSkip(ch) ==
    IF ch >= 97 /\ ch <= 104 THEN ch - 97
    ELSE 4

\* GetSubPointIndex
GetSubPointIndex(ch) ==
    IF ch >= 97 /\ ch <= 100 THEN ch - 97
    ELSE IF ch >= 101 /\ ch <= 104 THEN ch - 97 + 1
    ELSE 4

\* MoveMouseByArrowKey
MoveMouseByArrowKey(s, dx, dy) ==
    [s EXCEPT !.cursorPos = Point(s.cursorPos.x + dx, s.cursorPos.y + dy),
              !.g_bMouseMoveMode = TRUE]

\* the step of CycleHighlight, were the forward wrap one entry late
CycleIndex_WrapsLate(idx, total, forward) ==
    IF forward
    THEN (IF idx + 1 > total THEN 0 ELSE idx + 1)
    ELSE (IF idx - 1 < 0 THEN total - 1 ELSE idx - 1)

\* the wrap-around step of CycleHighlight
CycleIndex(idx, total, forward) ==
    IF forward
    THEN (IF idx + 1 >= total THEN 0 ELSE idx + 1)
    ELSE (IF idx - 1 < 0 THEN total - 1 ELSE idx - 1)

\* CycleHighlight without the call of EnumerateAppWindows
CycleHighlight_NoRefresh(s, forward, sys, sorted) ==
    LET total == Len(s.g_appWindows) + Len(s.g_minimizedWindows)
    IN IF total = 0 THEN s
       ELSE [s EXCEPT !.g_highlightIndex =
                           CycleIndex(s.g_highlightIndex, total, forward),
                      !.g_bTabTextMode = FALSE,
                      !.timerTabText = TRUE]

\* CycleHighlight without the return on an empty catalog
CycleHighlight_NoEmptyReturn(s, forward, sys, sorted) ==
    LET s1 == IF s.g_appWindows = << >> /\ s.g_minimizedWindows = << >>
              THEN EnumerateAppWindows(s, sys, sorted) ELSE s
        total == Len(s1.g_appWindows) + Len(s1.g_minimizedWindows)
    IN [s1 EXCEPT !.g_highlightIndex =
                       CycleIndex(s1.g_highlightIndex, total, forward),
                  !.g_bTabTextMode = FALSE,
                  !.timerTabText = TRUE]

\* CycleHighlight; sorted is the outcome of std::sort should it enumerate
CycleHighlight(s, forward, sys, sorted) ==
    LET s1 == IF s.g_appWindows = << >> /\ s.g_minimizedWindows = << >>
              THEN EnumerateAppWindows(s, sys, sorted) ELSE s
        total == Len(s1.g_appWindows) + Len(s1.g_minimizedWindows)
    IN IF total = 0 THEN s1
       ELSE [s1 EXCEPT !.g_highlightIndex =
                            CycleIndex(s1.g_highlightIndex, total, forward),
                       !.g_bTabTextMode = FALSE,
                       !.timerTabText = TRUE]

\* the buffer, were the fourth character left in it
BufferAfter_KeepsFourth(typed, ch) == Append(typed, ch)

\* the buffer, were it cleared as soon as it holds a label
BufferAfter_ClearsAt3(typed, ch) ==
    IF Len(Append(typed, ch)) >= 3 THEN << >> ELSE Append(typed, ch)

\* the buffer ProcessTypedChar leaves behind after appending ch
BufferAfter(typed, ch) ==
    IF Len(Append(typed, ch)) = 4 THEN << >> ELSE Append(typed, ch)

\* first cell of g_cells with the given label (0 if none)
FindCell(label) ==
    IF \E i \in DOMAIN g_cells : g_cells[i].label = label
    THEN CHOOSE i \in DOMAIN g_cells :
            /\ g_cells[i].label = label
            /\ \A j \in DOMAIN g_cells : g_cells[j].label = label => i <= j
    ELSE 0

\* ProcessTypedChar, were the fourth character ignored and the pointer
\* always sent to the cell's center
ProcessTypedChar_AlwaysCenter(s, ch0) ==
    IF ~s.g_bGridVisible THEN s
    ELSE LET ch == towlower(ch0) IN
      IF ~(ch >= 97 /\ ch <= 122) THEN s
      ELSE
        LET typed == Append(s.g_typedChars, ch)
            s1 == IF s.g_highlightIndex >= 0
                  THEN [s EXCEPT !.g_highlightIndex = -1,
                                 !.g_appWindows = << >>]
                  ELSE s
            s2 == [s1 EXCEPT !.g_bMouseMoveMode = FALSE,
                             !.timerReset = TRUE,
                             !.g_typedChars = BufferAfter(s.g_typedChars, ch)]
        IN IF Len(typed) = 4
           THEN LET c == FindCell(SubSeq(typed, 1, 3))
                IN IF c = 0 THEN s2
                   ELSE MoveMouse(s2, g_cells[c].center)
           ELSE IF Len(typed) = 3
           THEN (IF typed \in DOMAIN g_gridMap
                 THEN MoveMouse(s2, g_gridMap[typed]) ELSE s2)
           ELSE s2

\* ProcessTypedChar
ProcessTypedChar(s, ch0) ==
    IF ~s.g_bGridVisible THEN s
    ELSE LET ch == towlower(ch0) IN
      IF ~(ch >= 97 /\ ch <= 122) THEN s
      ELSE
        LET typed == Append(s.g_typedChars, ch)
            s1 == IF s.g_highlightIndex >= 0
                  THEN [s EXCEPT !.g_highlightIndex = -1,
                                 !.g_appWindows = << >>]
                  ELSE s
            s2 == [s1 EXCEPT !.g_bMouseMoveMode = FALSE,
                             !.timerReset = TRUE,
                             !.g_typedChars = BufferAfter(s.g_typedChars, ch)]
        IN IF Len(typed) = 4
           THEN LET c == FindCell(SubSeq(typed, 1, 3))
                    subChar == typed[4]
                IN IF c = 0 THEN s2
                   ELSE IF subChar >= 97 /\ subChar <= 104
                        THEN MoveMouse(s2,
                               g_cells[c].subPoints[GetSubPointIndex(subChar)])
                        ELSE MoveMouse(s2, g_cells[c].center)
           ELSE IF Len(typed) = 3
           THEN (IF typed \in DOMAIN g_gridMap
                 THEN MoveMouse(s2, g_gridMap[typed]) ELSE s2)
           ELSE s2

(***************************************************************************)
(* OverlayWndProc                                                          *)
(***************************************************************************)
\* inTabMode, were a non-empty filter alone not enough
InTabMode_IgnoresFilter(s) ==
    s.g_highlightIndex >= 0 \/ s.g_bTabTextMode

\* bool inTabMode
InTabMode(s) ==
    s.g_highlightIndex >= 0 \/ s.g_bTabTextMode \/ s.g_tabSearchStr # << >>

\* if (!g_appWindows.empty()) 0; else if (!g_minimizedWindows.empty()) 0;
\* else -1
FirstOrNone(app, min) ==
    IF app # << >> THEN 0 ELSE IF min # << >> THEN 0 ELSE -1

\* the resolution, were the minimized list indexed by the combined index
TargetWnd_NoOffset(s) ==
    LET totalNormal == Len(s.g_appWindows) IN
    IF s.g_highlightIndex >= 0 /\ s.g_highlightIndex < totalNormal
    THEN s.g_appWindows[s.g_highlightIndex + 1].hwnd
    ELSE IF /\ s.g_highlightIndex >= totalNormal
            /\ s.g_highlightIndex < Len(s.g_minimizedWindows)
    THEN s.g_minimizedWindows[s.g_highlightIndex + 1].hwnd
    ELSE 0

\* the window a highlighted index resolves to (NULL = 0)
TargetWnd(s) ==
    LET totalNormal == Len(s.g_appWindows) IN
    IF s.g_highlightIndex >= 0 /\ s.g_highlightIndex < totalNormal
    THEN s.g_appWindows[s.g_highlightIndex + 1].hwnd
    ELSE IF /\ s.g_highlightIndex >= totalNormal
            /\ s.g_highlightIndex - totalNormal < Len(s.g_minimizedWindows)
    THEN s.g_minimizedWindows[s.g_highlightIndex - totalNormal + 1].hwnd
    ELSE 0

\* HideGrid(); SetForegroundWindow(targetWnd)
Activate(s, hwnd) == [HideGrid(s) EXCEPT !.lastOut = Out("activate", hwnd)]

\* case VK_TAB, were Shift the forward direction
TabModeTab_ShiftForward(s, shift, sys, sorted) ==
    IF s.g_bTabTextMode \/ s.g_tabSearchStr # << >>
    THEN LET app == VisibleOnly(s.g_allAppWindows) IN
         [s EXCEPT !.g_bTabTextMode = FALSE,
                   !.g_tabSearchStr = << >>,
                   !.g_appWindows = app,
                   !.g_minimizedWindows = << >>,
                   !.g_highlightIndex = IF app # << >> THEN 0 ELSE -1,
                   !.timerTabText = TRUE]
    ELSE CycleHighlight(s, shift, sys, sorted)

\* WM_KEYDOWN, case VK_TAB of the selector switch
TabModeTab(s, shift, sys, sorted) ==
    IF s.g_bTabTextMode \/ s.g_tabSearchStr # << >>
    THEN LET app == VisibleOnly(s.g_allAppWindows) IN
         [s EXCEPT !.g_bTabTextMode = FALSE,
                   !.g_tabSearchStr = << >>,
                   !.g_appWindows = app,
                   !.g_minimizedWindows = << >>,
                   !.g_highlightIndex = IF app # << >> THEN 0 ELSE -1,
                   !.timerTabText = TRUE]
    ELSE CycleHighlight(s, ~shift, sys, sorted)

\* the tab-mode VK_BACK branch, were the baseline always the visible-only
\* list
TabModeBack_VisibleOnly(s) ==
    IF s.g_tabSearchStr = << >> THEN s
    ELSE LET str == SubSeq(s.g_tabSearchStr, 1, Len(s.g_tabSearchStr) - 1)
             s1 == [s EXCEPT !.g_tabSearchStr = str]
         IN IF str = << >>
            THEN LET app == VisibleOnly(s.g_allAppWindows)
                     min == s.g_allMinimizedWindows
                 IN [s1 EXCEPT !.g_appWindows = app,
                               !.g_minimizedWindows = min,
                               !.g_highlightIndex = FirstOrNone(app, min)]
            ELSE FilterAppWindowsBySearch(s1)

\* WM_KEYDOWN, case VK_BACK of the selector switch
TabModeBack(s) ==
    IF s.g_tabSearchStr = << >> THEN s
    ELSE LET str == SubSeq(s.g_tabSearchStr, 1, Len(s.g_tabSearchStr) - 1)
             s1 == [s EXCEPT !.g_tabSearchStr = str]
         IN IF str = << >>
            THEN LET app == IF s.g_bTabTextMode THEN s.g_allAppWindows
                            ELSE VisibleOnly(s.g_allAppWindows)
                     min == s.g_allMinimizedWindows
                 IN [s1 EXCEPT !.g_appWindows = app,
                               !.g_minimizedWindows = min,
                               !.g_highlightIndex = FirstOrNone(app, min)]
            ELSE FilterAppWindowsBySearch(s1)

\* WM_KEYDOWN while inTabMode
TabModeKeyDown(s, wParam, shift, sys, sorted) ==
    CASE wParam = "VK_ESCAPE" -> HideGrid(s)
      [] wParam = "VK_RETURN" ->
            IF TargetWnd(s) # 0 THEN Activate(s, TargetWnd(s)) ELSE s
      [] wParam = "VK_TAB" -> TabModeTab(s, shift, sys, sorted)
      [] wParam = "VK_BACK" -> TabModeBack(s)
      [] OTHER -> s

\* the step an arrow key moves the pointer by
MoveAmount(shift, ctrl) == IF shift THEN 1 ELSE IF ctrl THEN 50 ELSE 10

\* WM_KEYDOWN, case VK_RETURN of the grid switch
GridReturn(s, ctrl) ==
    IF TargetWnd(s) # 0 THEN Activate(s, TargetWnd(s))
    ELSE LET s1 == IF Len(s.g_typedChars) >= 3
                      /\ SubSeq(s.g_typedChars, 1, 3) \in DOMAIN g_gridMap
                   THEN MoveMouse(s, g_gridMap[SubSeq(s.g_typedChars, 1, 3)])
                   ELSE s
         IN [HideGrid(s1) EXCEPT !.lastOut =
                IF ctrl THEN Out("rightclick", 0) ELSE Out("leftclick", 0)]

\* the grid-mode VK_BACK branch, were the pointer sent to the cell a
\* shortened three-character buffer names
GridBack_MovesPointer(s) ==
    IF s.g_highlightIndex >= 0 /\ s.g_tabSearchStr # << >>
    THEN LET str == SubSeq(s.g_tabSearchStr, 1, Len(s.g_tabSearchStr) - 1)
             s1 == [s EXCEPT !.g_tabSearchStr = str]
         IN IF str = << >>
            THEN LET app == VisibleOnly(s.g_allAppWindows)
                     min == s.g_allMinimizedWindows
                 IN [s1 EXCEPT !.g_appWindows = app,
                               !.g_minimizedWindows = min,
                               !.g_highlightIndex = FirstOrNone(app, min)]
            ELSE FilterAppWindowsBySearch(s1)
    ELSE IF s.g_typedChars # << >>
    THEN [s EXCEPT !.g_typedChars =
                       SubSeq(s.g_typedChars, 1, Len(s.g_typedChars) - 1),
                   !.cursorPos =
                       IF s.g_typedChars \in DOMAIN g_gridMap
                       THEN Point(0, 0) ELSE s.cursorPos]
    ELSE s

\* WM_KEYDOWN, case VK_BACK of the grid switch
GridBack(s) ==
    IF s.g_highlightIndex >= 0 /\ s.g_tabSearchStr # << >>
    THEN LET str == SubSeq(s.g_tabSearchStr, 1, Len(s.g_tabSearchStr) - 1)
             s1 == [s EXCEPT !.g_tabSearchStr = str]
         IN IF str = << >>
            THEN LET app == VisibleOnly(s.g_allAppWindows)
                     min == s.g_allMinimizedWindows
                 IN [s1 EXCEPT !.g_appWindows = app,
                               !.g_minimizedWindows = min,
                               !.g_highlightIndex = FirstOrNone(app, min)]
            ELSE FilterAppWindowsBySearch(s1)
    ELSE IF s.g_typedChars # << >>
    THEN [s EXCEPT !.g_typedChars =
                       SubSeq(s.g_typedChars, 1, Len(s.g_typedChars) - 1)]
    ELSE s

\* WM_KEYDOWN, cases VK_PRIOR / VK_NEXT of the grid switch
GridPage(s, wParam) ==
    LET s1 == IF ~s.g_bScrollMode
              THEN [s EXCEPT !.g_bScrollMode = TRUE,
                             !.exTransparent = TRUE,
                             !.g_hScrollMouseHook = TRUE]
              ELSE s
    IN [s1 EXCEPT !.lastOut =
           Out("wheel", IF wParam = "VK_PRIOR" THEN 3 ELSE -3)]

\* WM_KEYDOWN outside inTabMode
GridKeyDown(s, wParam, shift, ctrl, sys, sorted) ==
    LET moveAmount == MoveAmount(shift, ctrl) IN
    CASE wParam = "VK_ESCAPE" -> HideGrid(s)
      [] wParam = "VK_LEFT" -> MoveMouseByArrowKey(s, -moveAmount, 0)
      [] wParam = "VK_RIGHT" -> MoveMouseByArrowKey(s, moveAmount, 0)
      [] wParam = "VK_UP" -> MoveMouseByArrowKey(s, 0, -moveAmount)
      [] wParam = "VK_DOWN" -> MoveMouseByArrowKey(s, 0, moveAmount)
      [] wParam = "VK_SPACE" -> HideCursor(HideGrid(s))
      [] wParam = "VK_RETURN" -> GridReturn(s, ctrl)
      [] wParam = "VK_TAB" -> CycleHighlight(s, ~shift, sys, sorted)
      [] wParam = "VK_BACK" -> GridBack(s)
      [] wParam \in {"VK_PRIOR", "VK_NEXT"} -> GridPage(s, wParam)
      [] OTHER -> s

\* case WM_KEYDOWN
OnKeyDown(s, wParam, shift, ctrl, sys, sorted) ==
    IF s.g_bScrollMode /\ wParam \notin {"VK_PRIOR", "VK_NEXT", "VK_ESCAPE"}
    THEN ExitScrollMode(s)
    ELSE IF InTabMode(s)
    THEN TabModeKeyDown(s, wParam, shift, sys, sorted)
    ELSE GridKeyDown(s, wParam, shift, ctrl, sys, sorted)

\* WM_CHAR, were '*' also acted on when the "all windows" flag is set
OnChar_StarAlways(s, ch) ==
    IF s.g_bScrollMode THEN ExitScrollMode(s)
    ELSE IF /\ ch = 42
            /\ (s.g_highlightIndex >= 0 \/ s.g_tabSearchStr # << >>)
    THEN [s EXCEPT !.g_bTabTextMode = TRUE,
                   !.g_tabSearchStr = << >>,
                   !.timerTabText = FALSE,
                   !.g_appWindows = s.g_allAppWindows,
                   !.g_minimizedWindows = s.g_allMinimizedWindows,
                   !.g_highlightIndex =
                       IF s.g_allAppWindows # << >> THEN 0
                       ELSE IF s.g_allMinimizedWindows # << >> THEN 0
                       ELSE s.g_highlightIndex]
    ELSE IF ch >= 97 /\ ch <= 122
    THEN (IF InTabMode(s)
          THEN [FilterAppWindowsBySearch(
                    [s EXCEPT !.g_tabSearchStr = Append(s.g_tabSearchStr, ch)])
                EXCEPT !.timerTabText = TRUE]
          ELSE ProcessTypedChar(s, ch))
    ELSE s

\* WM_CHAR, were every letter handed to ProcessTypedChar
OnChar_LettersToGrid(s, ch) ==
    IF s.g_bScrollMode THEN ExitScrollMode(s)
    ELSE IF /\ ch = 42
            /\ (s.g_highlightIndex >= 0 \/ s.g_tabSearchStr # << >>)
            /\ ~s.g_bTabTextMode
    THEN [s EXCEPT !.g_bTabTextMode = TRUE,
                   !.g_tabSearchStr = << >>,
                   !.timerTabText = FALSE,
                   !.g_appWindows = s.g_allAppWindows,
                   !.g_minimizedWindows = s.g_allMinimizedWindows,
                   !.g_highlightIndex =
                       IF s.g_allAppWindows # << >> THEN 0
                       ELSE IF s.g_allMinimizedWindows # << >> THEN 0
                       ELSE s.g_highlightIndex]
    ELSE IF ch >= 97 /\ ch <= 122
    THEN ProcessTypedChar(s, ch)
    ELSE s

\* case WM_CHAR, were every character but the star handed on untested
OnChar_NoRangeTest(s, ch) ==
    IF s.g_bScrollMode THEN ExitScrollMode(s)
    ELSE IF /\ ch = 42
            /\ (s.g_highlightIndex >= 0 \/ s.g_tabSearchStr # << >>)
            /\ ~s.g_bTabTextMode
    THEN [s EXCEPT !.g_bTabTextMode = TRUE,
                   !.g_tabSearchStr = << >>,
                   !.timerTabText = FALSE,
                   !.g_appWindows = s.g_allAppWindows,
                   !.g_minimizedWindows = s.g_allMinimizedWindows,
                   !.g_highlightIndex =
                       IF s.g_allAppWindows # << >> THEN 0
                       ELSE IF s.g_allMinimizedWindows # << >> THEN 0
                       ELSE s.g_highlightIndex]
    ELSE IF InTabMode(s)
    THEN (IF ch >= 97 /\ ch <= 122
          THEN [FilterAppWindowsBySearch(
                    [s EXCEPT !.g_tabSearchStr = Append(s.g_tabSearchStr, ch)])
                EXCEPT !.timerTabText = TRUE]
          ELSE s)
    ELSE ProcessTypedChar(s, ch)

\* case WM_CHAR
OnChar(s, ch) ==
    IF s.g_bScrollMode THEN ExitScrollMode(s)
    ELSE IF /\ ch = 42
            /\ (s.g_highlightIndex >= 0 \/ s.g_tabSearchStr # << >>)
            /\ ~s.g_bTabTextMode
    THEN [s EXCEPT !.g_bTabTextMode = TRUE,
                   !.g_tabSearchStr = << >>,
                   !.timerTabText = FALSE,
                   !.g_appWindows = s.g_allAppWindows,
                   !.g_minimizedWindows = s.g_allMinimizedWindows,
                   !.g_highlightIndex =
                       IF s.g_allAppWindows # << >> THEN 0
                       ELSE IF s.g_allMinimizedWindows # << >> THEN 0
                       ELSE s.g_highlightIndex]
    ELSE IF ch >= 97 /\ ch <= 122
    THEN (IF InTabMode(s)
          THEN [FilterAppWindowsBySearch(
                    [s EXCEPT !.g_tabSearchStr = Append(s.g_tabSearchStr, ch)])
                EXCEPT !.timerTabText = TRUE]
          ELSE ProcessTypedChar(s, ch))
    ELSE s

\* the TIMER_ID_RESET branch without its KillTimer: the timer stays pending
OnTimerReset_Periodic(s) ==
    IF (s.g_highlightIndex >= 0 \/ s.g_bTabTextMode) /\ s.g_tabSearchStr # << >>
    THEN LET app == IF s.g_bTabTextMode THEN s.g_allAppWindows
                    ELSE VisibleOnly(s.g_allAppWindows)
             min == s.g_allMinimizedWindows
         IN [s EXCEPT !.g_tabSearchStr = << >>,
                      !.g_appWindows = app,
                      !.g_minimizedWindows = min,
                      !.g_highlightIndex = FirstOrNone(app, min)]
    ELSE IF s.g_typedChars # << >>
    THEN [s EXCEPT !.g_typedChars = << >>]
    ELSE s

\* case WM_TIMER, wParam == TIMER_ID_RESET
OnTimerReset(s0) ==
    LET s == [s0 EXCEPT !.timerReset = FALSE] IN
    IF (s.g_highlightIndex >= 0 \/ s.g_bTabTextMode) /\ s.g_tabSearchStr # << >>
    THEN LET app == IF s.g_bTabTextMode THEN s.g_allAppWindows
                    ELSE VisibleOnly(s.g_allAppWindows)
             min == s.g_allMinimizedWindows
         IN [s EXCEPT !.g_tabSearchStr = << >>,
                      !.g_appWindows = app,
                      !.g_minimizedWindows = min,
                      !.g_highlightIndex = FirstOrNone(app, min)]
    ELSE IF s.g_typedChars # << >>
    THEN [s EXCEPT !.g_typedChars = << >>]
    ELSE s

\* case WM_TIMER, wParam == TIMER_ID_TAB_TEXT
OnTimerTabText(s0) ==
    LET s == [s0 EXCEPT !.timerTabText = FALSE] IN
    IF s.g_highlightIndex >= 0 /\ ~s.g_bTabTextMode
    THEN [s EXCEPT !.g_bTabTextMode = TRUE,
                   !.g_tabSearchStr = << >>,
                   !.g_appWindows = s.g_allAppWindows,
                   !.g_minimizedWindows = s.g_allMinimizedWindows,
                   !.g_highlightIndex =
                       IF s.g_allAppWindows # << >> THEN 0
                       ELSE IF s.g_allMinimizedWindows # << >> THEN 0
                       ELSE s.g_highlightIndex]
    ELSE s

\* MainWndProc, case WM_HOTKEY
OnHotkey(s) == IF s.g_bGridVisible THEN HideGrid(s) ELSE ShowGrid(s)

\* LowLevelKeyboardProc for a typing key
LowLevelKeyboardProc(s) ==
    IF ~s.g_bGridVisible /\ ~s.g_bMouseMoveMode /\ ~s.g_bCursorHidden
    THEN HideCursor(s) ELSE s

\* ScrollMouseProc and LowLevelMouseProc for WM_MOUSEMOVE; both hooks see the
\* event when installed
OnMouseMoveHooks(s) ==
    LET s1 == IF s.g_hScrollMouseHook /\ s.g_bScrollMode
              THEN ExitScrollMode(s) ELSE s
    IN IF s1.g_bCursorHidden THEN RestoreCursor(s1) ELSE s1

(***************************************************************************)
(* Inputs explored                                                         *)
(***************************************************************************)
SysMonitor(rc, dpi, failed) == [rc |-> rc, dpi |-> dpi, dpiFailed |-> failed]

SysWindow(h, title, rc, iconic) ==
    [hwnd |-> h, title |-> title, rect |-> rc, iconic |-> iconic,
     visible |-> TRUE, toolWindow |-> FALSE, own |-> FALSE]

\* A desktop with an invisible, an own and a tool window (none may occlude),
\* two windows of equal visible area ("Ab" over "ba"), a fully covered one
\* ("hb"), an untitled one, an empty one and a minimized one ("Za")
RichDesktop ==
    << [SysWindow(5, << 97 >>, Rect(0, 0, 9, 9), FALSE) EXCEPT !.visible = FALSE],
       [SysWindow(6, << 97 >>, Rect(0, 0, 9, 9), FALSE) EXCEPT !.own = TRUE],
       SysWindow(1, << 65, 98 >>, Rect(0, 0, 2, 1), FALSE),
       [SysWindow(7, << 97 >>, Rect(0, 0, 9, 9), FALSE) EXCEPT !.toolWindow = TRUE],
       SysWindow(2, << 98, 97 >>, Rect(0, 0, 2, 2), FALSE),
       SysWindow(8, << >>, Rect(0, 0, 9, 9), FALSE),
       SysWindow(4, << 90, 97 >>, Rect(0, 0, 0, 0), TRUE),
       SysWindow(9, << 97 >>, Rect(4, 4, 4, 6), FALSE),
       SysWindow(3, << 104, 98 >>, Rect(0, 0, 1, 1), FALSE) >>

\* only a minimized window ("B")
MinimizedDesktop == << SysWindow(10, << 66 >>, Rect(0, 0, 0, 0), TRUE) >>

\* one monitor of 2 x 1 cells (aaa, aab) and, left of the origin and without
\* a DPI answer, one of a single cell (baa)
TwoMonitors ==
    << SysMonitor(Rect(0, 0, 344, 172), 192, FALSE),
       SysMonitor(Rect(-100, 0, 0, 100), 0, TRUE) >>

ArrowKeys == { "VK_LEFT", "VK_RIGHT", "VK_UP", "VK_DOWN" }

\* key, Shift held, Ctrl held
KeyInput(k, sh, ct) == [wParam |-> k, shift |-> sh, ctrl |-> ct]

PlainKeys ==
    { KeyInput(k, FALSE, FALSE) :
        k \in { "VK_ESCAPE", "VK_RETURN", "VK_TAB", "VK_BACK", "VK_SPACE",
                "VK_PRIOR", "VK_NEXT", "VK_SHIFT" } }
      \cup { KeyInput("VK_TAB", TRUE, FALSE), KeyInput("VK_RETURN", FALSE, TRUE) }

\* An environment: the monitors, the desktops the window list moves between,
\* the characters and the keys the user presses.
\* characters: 'a' 97, 'b' 98, 'z' 122, '*' 42, 'A' 65
Environments ==
    { \* addressing a real grid, no windows on the desktop
      [monitors |-> TwoMonitors,
       displays |-> { TwoMonitors },
       desktops |-> { << >> },
       chars |-> { 97, 98, 122, 42, 65 },
       keys |-> PlainKeys
                  \cup { KeyInput("VK_LEFT", FALSE, FALSE),
                         KeyInput("VK_RIGHT", TRUE, FALSE),
                         KeyInput("VK_UP", FALSE, TRUE),
                         KeyInput("VK_DOWN", FALSE, FALSE) }],
      \* selecting windows, no monitor reported
      [monitors |-> << >>,
       displays |-> { << >> },
       desktops |-> { << >>, RichDesktop, MinimizedDesktop },
       chars |-> { 97, 98, 42, 65 },
       keys |-> PlainKeys],
      \* arrow-key mode next to a one-window selector
      [monitors |-> << >>,
       displays |-> { << >> },
       desktops |-> { MinimizedDesktop },
       chars |-> { 98, 42 },
       keys |-> PlainKeys \cup { KeyInput("VK_LEFT", FALSE, FALSE) }],
      \* sub-grid addressing in the single cell of a 100 x 100 monitor, to
      \* which a second monitor can be attached and detached
      [monitors |-> << SysMonitor(Rect(0, 0, 100, 100), 96, FALSE) >>,
       displays |-> { << SysMonitor(Rect(0, 0, 100, 100), 96, FALSE) >>,
                      << SysMonitor(Rect(0, 0, 100, 100), 96, FALSE),
                         SysMonitor(Rect(100, 0, 200, 100), 96, FALSE) >> },
       desktops |-> { << >> },
       chars |-> (97..104) \cup { 122 },
       keys |-> { KeyInput("VK_ESCAPE", FALSE, FALSE) }] }

\* where the pointer is at start and where the user's hand moves it
HandPoint == Point(7, 7)

(***************************************************************************)
(* The program as a state machine: one step per dispatched message or hook *)
(* callback.                                                               *)
(***************************************************************************)
buildVars == << pc, bMon, gridCols, gridRows, bRow, bCol, bIndex >>

Init ==
    /\ env \in Environments
    /\ g_bGridVisible = FALSE
    /\ g_bMouseMoveMode = FALSE
    /\ g_bCursorHidden = FALSE
    /\ g_bScrollMode = FALSE
    /\ g_hScrollMouseHook = FALSE
    /\ g_bTabTextMode = FALSE
    /\ g_typedChars = << >>
    /\ sysMonitors = env.monitors
    \* MainWndProc WM_CREATE: BuildGridCells()
    /\ g_monitors = EnumDisplayMonitors(<< >>, sysMonitors)
    /\ g_cells = AllCells(g_monitors)
    /\ g_gridMap = GridMapOf(g_cells)
    /\ g_appWindows = << >>
    /\ g_allAppWindows = << >>
    /\ g_minimizedWindows = << >>
    /\ g_allMinimizedWindows = << >>
    /\ g_highlightIndex = -1
    /\ g_tabSearchStr = << >>
    /\ sysWindows \in env.desktops
    /\ cursorPos = HandPoint
    /\ timerReset = FALSE
    /\ timerTabText = FALSE
    /\ exTransparent = FALSE
    /\ lastMsg = "WM_CREATE"
    /\ lastOut = Out("none", 0)
    /\ nArrow = 0
    /\ pc = "off" /\ bMon = 0 /\ gridCols = 0 /\ gridRows = 0
    /\ bRow = 0 /\ bCol = 0 /\ bIndex = 0
    /\ CursorInit

\* the handler's resulting state becomes the next state
Commit(s, m) ==
    /\ lastMsg' = m
    /\ g_typedChars' = s.g_typedChars
    /\ g_tabSearchStr' = s.g_tabSearchStr
    /\ g_bGridVisible' = s.g_bGridVisible
    /\ g_bMouseMoveMode' = s.g_bMouseMoveMode
    /\ g_bCursorHidden' = s.g_bCursorHidden
    /\ g_bScrollMode' = s.g_bScrollMode
    /\ g_hScrollMouseHook' = s.g_hScrollMouseHook
    /\ g_bTabTextMode' = s.g_bTabTextMode
    /\ g_appWindows' = s.g_appWindows
    /\ g_allAppWindows' = s.g_allAppWindows
    /\ g_minimizedWindows' = s.g_minimizedWindows
    /\ g_allMinimizedWindows' = s.g_allMinimizedWindows
    /\ g_highlightIndex' = s.g_highlightIndex
    /\ cursorPos' = s.cursorPos
    /\ timerReset' = s.timerReset
    /\ timerTabText' = s.timerTabText
    /\ exTransparent' = s.exTransparent
    /\ lastOut' = s.lastOut
    /\ UNCHANGED << g_gridMap, g_monitors, g_cells, sysMonitors, sysWindows, env >>
    /\ UNCHANGED buildVars
    /\ UNCHANGED cursorVars

\* the dispatch of WM_KEYDOWN with key input k
KeyStep(k) ==
    /\ nArrow' = IF k.wParam \in ArrowKeys THEN nArrow + 1 ELSE nArrow
    /\ lastMsg' = "WM_KEYDOWN"
    /\ \E sorted \in SortChoices(sysWindows) :
         Commit(OnKeyDown(Cur, k.wParam, k.shift, k.ctrl, sysWindows, sorted),
                "WM_KEYDOWN")

\* WM_KEYDOWN reaches the overlay only while it is shown and focused
KeyDown ==
    /\ g_bGridVisible
    /\ \E k \in env.keys :
         /\ k.wParam \in ArrowKeys => nArrow < MaxArrow
         /\ KeyStep(k)

\* the dispatch of WM_CHAR with character ch
CharStep(ch) ==
    /\ Commit(OnChar(Cur, ch), "WM_CHAR")
    /\ UNCHANGED nArrow

\* WM_CHAR; posted by TranslateMessage, it can be dispatched after the
\* overlay was hidden
Char ==
    \E ch \in env.chars :
        /\ (ch >= 97 /\ ch <= 122 /\ InTabMode(Cur) /\ ~g_bScrollMode)
               => Len(g_tabSearchStr) < MaxSearchLen
        /\ CharStep(ch)

KillFocus ==
    /\ g_bGridVisible
    /\ Commit(HideGrid(Cur), "WM_KILLFOCUS")
    /\ UNCHANGED nArrow

TimerReset ==
    /\ timerReset
    /\ Commit(OnTimerReset(Cur), "WM_TIMER_RESET")
    /\ UNCHANGED nArrow

TimerTabText ==
    /\ timerTabText
    /\ Commit(OnTimerTabText(Cur), "WM_TIMER_TAB_TEXT")
    /\ UNCHANGED nArrow

Hotkey ==
    /\ Commit(OnHotkey(Cur), "WM_HOTKEY")
    /\ UNCHANGED nArrow

\* tray double-click and the tray menu's Show command
TrayShow ==
    /\ Commit(ShowGrid(Cur), "WM_TRAYICON")
    /\ UNCHANGED nArrow

\* a typing key seen by the global keyboard hook while the overlay is hidden
GlobalKey ==
    /\ ~g_bGridVisible
    /\ Commit(LowLevelKeyboardProc(Cur), "HOOK_KEYBOARD")
    /\ UNCHANGED nArrow

\* the user moves the mouse
MouseMove ==
    /\ Commit(OnMouseMoveHooks([Cur EXCEPT !.cursorPos = HandPoint]), "HOOK_MOUSE")
    /\ UNCHANGED nArrow

\* the desktop's windows change
\* a monitor is attached or detached: EnumDisplayMonitors reports another
\* list from now on; the program handles no message about it
MonitorsChange ==
    /\ sysMonitors' \in env.displays \ {sysMonitors}
    /\ UNCHANGED << g_bGridVisible, g_bMouseMoveMode, g_bCursorHidden,
                    g_bScrollMode, g_hScrollMouseHook, g_bTabTextMode,
                    g_typedChars, g_gridMap, g_monitors, g_cells, g_appWindows,
                    g_allAppWindows, g_minimizedWindows, g_allMinimizedWindows,
                    g_highlightIndex, g_tabSearchStr, sysWindows, cursorPos,
                    timerReset, timerTabText, exTransparent, lastMsg, lastOut,
                    nArrow, env >>
    /\ UNCHANGED buildVars
    /\ UNCHANGED cursorVars

WindowsChange ==
    /\ sysWindows' \in env.desktops \ {sysWindows}
    /\ UNCHANGED << g_bGridVisible, g_bMouseMoveMode, g_bCursorHidden,
                    g_bScrollMode, g_hScrollMouseHook, g_bTabTextMode,
                    g_typedChars, g_gridMap, g_monitors, g_cells, g_appWindows,
                    g_allAppWindows, g_minimizedWindows, g_allMinimizedWindows,
                    g_highlightIndex, g_tabSearchStr, sysMonitors, cursorPos,
                    timerReset, timerTabText, exTransparent, lastMsg, lastOut,
                    nArrow, env >>
    /\ UNCHANGED buildVars
    /\ UNCHANGED cursorVars

Next ==
    \/ KeyDown
    \/ Char
    \/ KillFocus
    \/ TimerReset
    \/ TimerTabText
    \/ Hotkey
    \/ TrayShow
    \/ GlobalKey
    \/ MouseMove
    \/ WindowsChange
    \/ MonitorsChange

Spec == Init /\ [][Next]_vars

(***************************************************************************)
(* BuildGridCells, statement by statement, over large monitors             *)
(***************************************************************************)
\* the dispatch thread's globals other than the grid, as at start-up
GlobalsAtStart ==
    /\ g_bGridVisible = FALSE
    /\ g_bMouseMoveMode = FALSE
    /\ g_bCursorHidden = FALSE
    /\ g_bScrollMode = FALSE
    /\ g_hScrollMouseHook = FALSE
    /\ g_bTabTextMode = FALSE
    /\ g_typedChars = << >>
    /\ g_appWindows = << >>
    /\ g_allAppWindows = << >>
    /\ g_minimizedWindows = << >>
    /\ g_allMinimizedWindows = << >>
    /\ g_highlightIndex = -1
    /\ g_tabSearchStr = << >>
    /\ cursorPos = HandPoint
    /\ timerReset = FALSE
    /\ timerTabText = FALSE
    /\ exTransparent = FALSE
    /\ lastOut = Out("none", 0)
    /\ nArrow = 0
    /\ CursorInit

selectorVars ==
    << g_appWindows, g_allAppWindows, g_minimizedWindows,
       g_allMinimizedWindows >>

otherVars ==
    << g_bGridVisible, g_bMouseMoveMode, g_bCursorHidden, g_bScrollMode,
       g_hScrollMouseHook, g_bTabTextMode, g_typedChars, g_highlightIndex,
       g_tabSearchStr, cursorPos, timerReset, timerTabText, exTransparent,
       lastOut, nArrow, env, sysMonitors, sysWindows, cursorVars >>

\* two 1920x1080 side by side; 3840x2160 (44 x 25 before capping); a
\* portrait 1080x1920 without a DPI answer next to 7680x4320 (89 x 50 before
\* capping); a 50x50 monitor (less than one cell) next to 2560x1440 at 144 DPI
BuildMonitorSets ==
    { << >>,
      << SysMonitor(Rect(0, 0, 1920, 1080), 96, FALSE),
         SysMonitor(Rect(1920, 0, 3840, 1080), 96, FALSE) >>,
      << SysMonitor(Rect(0, 0, 3840, 2160), 96, FALSE) >>,
      << SysMonitor(Rect(-1080, 0, 0, 1920), 0, TRUE),
         SysMonitor(Rect(0, 0, 7680, 4320), 96, FALSE) >>,
      << SysMonitor(Rect(0, 0, 50, 50), 96, FALSE),
         SysMonitor(Rect(50, 0, 2610, 1440), 144, FALSE) >>,
      \* 175 x 90: two columns of 87 pixels, one row
      << SysMonitor(Rect(0, 0, 175, 90), 96, FALSE) >> }

InitBuild ==
    /\ GlobalsAtStart
    /\ sysMonitors \in BuildMonitorSets
    /\ sysWindows = << >>
    /\ env = [monitors |-> sysMonitors, displays |-> { sysMonitors },
              desktops |-> { << >> }, chars |-> {}, keys |-> {}]
    /\ lastMsg = "WM_CREATE"
    /\ g_monitors = << >>
    /\ g_cells = << >>
    /\ g_gridMap = << >>
    /\ pc = "enum"
    /\ bMon = 0 /\ gridCols = 0 /\ gridRows = 0
    /\ bRow = 0 /\ bCol = 0 /\ bIndex = 0

\* clear(); EnumDisplayMonitors(...)
BuildEnum ==
    /\ pc = "enum"
    /\ g_cells' = << >>
    /\ g_gridMap' = << >>
    /\ g_monitors' = EnumDisplayMonitors(<< >>, sysMonitors)
    /\ bMon' = 1
    /\ pc' = IF g_monitors' = << >> THEN "done" ELSE "dims"
    /\ UNCHANGED << gridCols, gridRows, bRow, bCol, bIndex, lastMsg >>
    /\ UNCHANGED selectorVars
    /\ UNCHANGED otherVars

\* gridCols = max(1, ...); gridRows = max(1, ...)
BuildDims ==
    /\ pc = "dims"
    /\ gridCols' = InitialCols(g_monitors[bMon])
    /\ gridRows' = InitialRows(g_monitors[bMon])
    /\ pc' = "cap"
    /\ UNCHANGED << g_cells, g_gridMap, g_monitors, bMon, bRow, bCol, bIndex,
                    lastMsg >>
    /\ UNCHANGED selectorVars
    /\ UNCHANGED otherVars

\* one iteration of while (gridCols * gridRows > 676)
BuildCapIter ==
    /\ pc = "cap"
    /\ NeedsCap(<< gridCols, gridRows >>)
    /\ gridCols' = CapStep(<< gridCols, gridRows >>)[1]
    /\ gridRows' = CapStep(<< gridCols, gridRows >>)[2]
    /\ UNCHANGED << g_cells, g_gridMap, g_monitors, pc, bMon, bRow, bCol,
                    bIndex, lastMsg >>
    /\ UNCHANGED selectorVars
    /\ UNCHANGED otherVars

\* the while loop exits; index = 0, row = 0, col = 0
BuildCapExit ==
    /\ pc = "cap"
    /\ ~NeedsCap(<< gridCols, gridRows >>)
    /\ pc' = "cells"
    /\ bRow' = 0 /\ bCol' = 0 /\ bIndex' = 0
    /\ UNCHANGED << g_cells, g_gridMap, g_monitors, bMon, gridCols, gridRows,
                    lastMsg >>
    /\ UNCHANGED selectorVars
    /\ UNCHANGED otherVars

\* body of the inner loop: push the cell, enter it in the map, index++, col++
BuildCell ==
    /\ pc = "cells"
    /\ bRow < gridRows /\ bCol < gridCols
    /\ LET cell == MakeCell(g_monitors[bMon], gridCols, gridRows,
                            bRow, bCol, bIndex)
       IN /\ g_cells' = Append(g_cells, cell)
          /\ g_gridMap' = (cell.label :> cell.center) @@ g_gridMap
    /\ bIndex' = bIndex + 1
    /\ bCol' = bCol + 1
    /\ UNCHANGED << g_monitors, pc, bMon, gridCols, gridRows, bRow, lastMsg >>
    /\ UNCHANGED selectorVars
    /\ UNCHANGED otherVars

\* the inner loop exits: row++, col = 0
BuildNextRow ==
    /\ pc = "cells"
    /\ bRow < gridRows /\ ~(bCol < gridCols)
    /\ bRow' = bRow + 1
    /\ bCol' = 0
    /\ UNCHANGED << g_cells, g_gridMap, g_monitors, pc, bMon, gridCols,
                    gridRows, bIndex, lastMsg >>
    /\ UNCHANGED selectorVars
    /\ UNCHANGED otherVars

\* the outer loop exits: next monitor, or return
BuildNextMonitor ==
    /\ pc = "cells"
    /\ ~(bRow < gridRows)
    /\ bMon' = bMon + 1
    /\ pc' = IF bMon + 1 > Len(g_monitors) THEN "done" ELSE "dims"
    /\ UNCHANGED << g_cells, g_gridMap, g_monitors, gridCols, gridRows, bRow,
                    bCol, bIndex, lastMsg >>
    /\ UNCHANGED selectorVars
    /\ UNCHANGED otherVars

NextBuild ==
    \/ BuildEnum
    \/ BuildDims
    \/ BuildCapIter
    \/ BuildCapExit
    \/ BuildCell
    \/ BuildNextRow
    \/ BuildNextMonitor

SpecBuild == InitBuild /\ [][NextBuild]_vars

\* the procedure runs on one thread and is never suspended for good
SpecBuildLive == InitBuild /\ [][NextBuild]_vars /\ WF_vars(NextBuild)

(***************************************************************************)
(* EnumerateAppWindows over all small desktops                             *)
(***************************************************************************)
MaxCoord == 2           \* window rectangles lie in 0..MaxCoord squared
MaxWindows == 2         \* non-minimized application windows on the desktop

CatalogRects ==
    { rc \in [left : 0..MaxCoord, top : 0..MaxCoord,
              right : 0..MaxCoord, bottom : 0..MaxCoord] :
        rc.left < rc.right /\ rc.top < rc.bottom }

\* the desktop before any window is open
InitCatalog ==
    /\ GlobalsAtStart
    /\ sysMonitors = << >>
    /\ sysWindows = << >>
    /\ env = [monitors |-> << >>, displays |-> { << >> }, desktops |-> {},
              chars |-> {}, keys |-> {}]
    /\ lastMsg = "WM_CREATE"
    /\ g_monitors = << >>
    /\ g_cells = << >>
    /\ g_gridMap = << >>
    /\ pc = "desktop"
    /\ bMon = 0 /\ gridCols = 0 /\ gridRows = 0
    /\ bRow = 0 /\ bCol = 0 /\ bIndex = 0

catalogFixed ==
    << g_bGridVisible, g_bMouseMoveMode, g_bCursorHidden, g_bScrollMode,
       g_hScrollMouseHook, g_bTabTextMode, g_typedChars, g_highlightIndex,
       g_tabSearchStr, cursorPos, timerReset, timerTabText, exTransparent,
       lastOut, nArrow, env, sysMonitors, g_cells, g_gridMap, g_monitors,
       bMon, gridCols, gridRows, bRow, bCol, bIndex, lastMsg,
       cursorVars >>

\* the first window is minimized or a tool window, titled "a", and would
\* cover every rectangle
CatalogOpenFront ==
    /\ pc = "desktop"
    /\ sysWindows = << >>
    /\ \E iconic \in BOOLEAN :
         sysWindows' =
           << [SysWindow(1, << 97 >>, Rect(0, 0, MaxCoord, MaxCoord), iconic)
                  EXCEPT !.toolWindow = ~iconic] >>
    /\ UNCHANGED << pc, selectorVars >>
    /\ UNCHANGED catalogFixed

\* an application window titled "a" opens behind the others; the window at
\* Z-position i has handle i
CatalogOpen ==
    /\ pc = "desktop"
    /\ Len(SelectSeq(sysWindows, GoesToApp)) < MaxWindows
    /\ \E rc \in CatalogRects :
         sysWindows' =
           Append(sysWindows, SysWindow(Len(sysWindows) + 1, << 97 >>, rc, FALSE))
    /\ UNCHANGED << pc, selectorVars >>
    /\ UNCHANGED catalogFixed

\* a call of EnumerateAppWindows
CatalogRefresh ==
    /\ pc = "desktop"
    /\ \E sorted \in SortChoices(sysWindows) :
         LET s == EnumerateAppWindows(Cur, sysWindows, sorted)
         IN /\ g_appWindows' = s.g_appWindows
            /\ g_allAppWindows' = s.g_allAppWindows
            /\ g_minimizedWindows' = s.g_minimizedWindows
            /\ g_allMinimizedWindows' = s.g_allMinimizedWindows
    /\ pc' = "refreshed"
    /\ UNCHANGED sysWindows
    /\ UNCHANGED catalogFixed

NextCatalog ==
    \/ CatalogOpenFront
    \/ CatalogOpen
    \/ CatalogRefresh

SpecCatalog == InitCatalog /\ [][NextCatalog]_vars

(***************************************************************************)
(* Properties                                                              *)
(***************************************************************************)
\* the coordinator's modes, read off the globals
SelectorActive ==
    g_highlightIndex >= 0 \/ g_bTabTextMode \/ g_tabSearchStr # << >>

GridTypingMode ==
    g_bGridVisible /\ ~g_bScrollMode /\ ~g_bMouseMoveMode /\ ~SelectorActive

PlainCycling ==
    /\ g_bGridVisible
    /\ g_highlightIndex >= 0
    /\ ~g_bTabTextMode
    /\ g_tabSearchStr = << >>

\* the lowercase letters this environment's user types
TypedLetters == { ch \in env.chars : ch >= 97 /\ ch <= 122 }

\* C1: in grid-typing mode each of the first three letters typed is appended
\* to the address buffer and leaves the overlay in grid-typing mode; when the
\* third letter completes the label of a cell, the pointer is at exactly
\* that cell's center and the buffer holds the label.
C1_RoundTrip ==
    [][(GridTypingMode /\ Len(g_typedChars) <= 2 /\ lastMsg' = "WM_CHAR")
       => \A ch \in TypedLetters :
            CharStep(ch)
            => /\ g_typedChars' = Append(g_typedChars, ch)
               /\ GridTypingMode'
               /\ \A i \in DOMAIN g_cells :
                    g_cells[i].label = g_typedChars'
                    => cursorPos' = g_cells[i].center]_vars

\* the third letter of the second monitor's label was typed and the pointer
\* moved from where it was to that cell's center
C1_Witness ==
    /\ lastMsg = "WM_CHAR"
    /\ GridTypingMode
    /\ Len(g_typedChars) = 3
    /\ g_typedChars[1] = 98
    /\ \E i \in DOMAIN g_cells :
         /\ g_cells[i].label = g_typedChars
         /\ cursorPos = g_cells[i].center
         /\ cursorPos # HandPoint

\* C2: after BuildGridCells no two cells carry the same label, on the same
\* or on different monitors, and the label map has one entry per cell.
C2_LabelsUnique ==
    pc = "done" =>
        /\ \A i \in DOMAIN g_cells : \A j \in (i + 1)..Len(g_cells) :
             g_cells[i].label # g_cells[j].label
        /\ Cardinality(DOMAIN g_gridMap) = Len(g_cells)

\* two monitors were gridded, one of them with all 676 two-letter codes
C2_Witness ==
    /\ pc = "done"
    /\ Len(g_monitors) = 2
    /\ Len(g_cells) > 676
    /\ << 98, 122, 122 >> \in DOMAIN g_gridMap

\* C3: the capping loop terminates, and when it has, columns >= 1,
\* rows >= 1 and columns x rows <= 676.
C3_CapTerminates ==
    /\ (pc = "cap") ~> (pc = "cells")
    /\ [](pc = "cells" =>
            gridCols >= 1 /\ gridRows >= 1 /\ gridCols * gridRows <= 676)

\* the loop ran on a monitor that needed capping and stopped at 27 x 25
C3_Witness ==
    /\ pc = "cells"
    /\ InitialCols(g_monitors[bMon]) * InitialRows(g_monitors[bMon]) > 676
    /\ gridCols = 27 /\ gridRows = 25

\* the pixels of a rectangle
Pixels(rc) ==
    { << x, y >> : x \in rc.left..(rc.right - 1), y \in rc.top..(rc.bottom - 1) }

\* an eligible window: visible, titled, not a tool window, not the
\* program's own, and minimized or of non-empty rectangle
Eligible(w) ==
    /\ w.visible /\ w.title # << >> /\ ~w.toolWindow /\ ~w.own
    /\ w.iconic \/ Pixels(w.rect) # {}

\* the pixels of the window at Z-position i that no non-minimized eligible
\* window in front of it covers
UncoveredPixels(i) ==
    Pixels(sysWindows[i].rect) \
        UNION { Pixels(sysWindows[j].rect) :
                  j \in { k \in 1..(i - 1) :
                            Eligible(sysWindows[k]) /\ ~sysWindows[k].iconic } }

\* C4: after a refresh every non-minimized eligible window's record carries
\* the exact number of its pixels that no non-minimized eligible window in
\* front of it covers; minimized windows occlude nothing and have
\* visibleArea 0; no other window has a record.
C4_ExactVisibleArea ==
    pc = "refreshed" =>
        /\ \A i \in DOMAIN sysWindows :
             (Eligible(sysWindows[i]) /\ ~sysWindows[i].iconic) =>
               \E k \in DOMAIN g_allAppWindows :
                 /\ g_allAppWindows[k].hwnd = sysWindows[i].hwnd
                 /\ g_allAppWindows[k].visibleArea = Cardinality(UncoveredPixels(i))
        /\ \A i \in DOMAIN sysWindows :
             (Eligible(sysWindows[i]) /\ sysWindows[i].iconic) =>
               \E k \in DOMAIN g_allMinimizedWindows :
                 /\ g_allMinimizedWindows[k].hwnd = sysWindows[i].hwnd
                 /\ g_allMinimizedWindows[k].visibleArea = 0
        /\ Len(g_allAppWindows) + Len(g_allMinimizedWindows)
             = Cardinality({ i \in DOMAIN sysWindows : Eligible(sysWindows[i]) })

\* a minimized window in front, then a window that leaves an L-shaped
\* remainder (3 of 4 pixels) of the window behind it
C4_Witness ==
    /\ pc = "refreshed"
    /\ Len(sysWindows) = 3
    /\ sysWindows[1].iconic /\ sysWindows[1].rect = Rect(0, 0, 2, 2)
    /\ \E k \in DOMAIN g_allAppWindows :
         /\ g_allAppWindows[k].hwnd = 3
         /\ RectArea(g_allAppWindows[k].rect) = 4
         /\ g_allAppWindows[k].visibleArea = 3

\* C5: the highlighted index is none or an index into the displayed lists.
C5_IndexInRange ==
    \/ g_highlightIndex = -1
    \/ /\ 0 <= g_highlightIndex
       /\ g_highlightIndex < Len(g_appWindows) + Len(g_minimizedWindows)

\* a key press left the highlight on the last entry, a minimized window
\* behind two displayed non-minimized ones, while the desktop has changed
C5_Witness ==
    /\ lastMsg = "WM_KEYDOWN"
    /\ Len(g_appWindows) = 2
    /\ Len(g_minimizedWindows) = 1
    /\ g_highlightIndex = 2
    /\ sysWindows = << >>

\* C6: while the overlay is hidden the address buffer and the filter are
\* empty, no index is highlighted, the AllWindows, mouse-move and scroll
\* flags are false and all four window lists are empty.
C6_IdleIsClean ==
    ~g_bGridVisible =>
        /\ g_typedChars = << >>
        /\ g_tabSearchStr = << >>
        /\ g_highlightIndex = -1
        /\ ~g_bTabTextMode
        /\ ~g_bMouseMoveMode
        /\ ~g_bScrollMode
        /\ g_appWindows = << >>
        /\ g_allAppWindows = << >>
        /\ g_minimizedWindows = << >>
        /\ g_allMinimizedWindows = << >>

\* the overlay was hidden by Enter out of the selector
C6_Witness ==
    /\ ~g_bGridVisible
    /\ lastMsg = "WM_KEYDOWN"
    /\ lastOut.kind = "activate"

\* C7: while the overlay is hidden neither timer is armed.
C7_NoTimerWhenIdle ==
    ~g_bGridVisible => ~timerReset /\ ~timerTabText

\* C8 as stated: every lowercase letter received while the overlay is shown
\* goes to the filter if the selector is active and to the address buffer
\* otherwise, and the other input is unchanged.
C8_Original ==
    [][(g_bGridVisible /\ lastMsg' = "WM_CHAR")
       => \A ch \in TypedLetters :
         CharStep(ch)
         => IF SelectorActive
            THEN /\ g_tabSearchStr' = Append(g_tabSearchStr, ch)
                 /\ g_typedChars' = g_typedChars
            ELSE /\ \/ g_typedChars' = Append(g_typedChars, ch)
                    \/ Len(g_typedChars) = 3 /\ g_typedChars' = << >>
                 /\ g_tabSearchStr' = g_tabSearchStr]_vars

\* C8 amended: the same, for letters received outside scroll mode; in scroll
\* mode the letter is appended to neither input and the overlay is hidden.
C8_OneInputPerLetter ==
    [][(g_bGridVisible /\ lastMsg' = "WM_CHAR")
       => \A ch \in TypedLetters :
         CharStep(ch)
         => IF g_bScrollMode
            THEN /\ ~g_bGridVisible'
                 /\ g_typedChars' = << >>
                 /\ g_tabSearchStr' = << >>
            ELSE IF SelectorActive
            THEN /\ g_tabSearchStr' = Append(g_tabSearchStr, ch)
                 /\ g_typedChars' = g_typedChars
            ELSE /\ \/ g_typedChars' = Append(g_typedChars, ch)
                    \/ Len(g_typedChars) = 3 /\ g_typedChars' = << >>
                 /\ g_tabSearchStr' = g_tabSearchStr]_vars

\* a letter went to the filter, which matches nothing, while the address
\* buffer held typed letters
C8_Witness ==
    /\ lastMsg = "WM_CHAR"
    /\ g_bGridVisible
    /\ g_tabSearchStr # << >>
    /\ g_highlightIndex = -1
    /\ g_typedChars # << >>

\* C9: in plain Cycling over n displayed windows Tab moves the highlight
\* from i to (i + 1) mod n and Shift+Tab to (i - 1) mod n, and the displayed
\* lists stay as they are.
C9_CycleWraps ==
    [][\A shift \in BOOLEAN :
         (PlainCycling /\ KeyStep(KeyInput("VK_TAB", shift, FALSE)))
         => LET n == Len(g_appWindows) + Len(g_minimizedWindows) IN
            /\ n > 0
            /\ g_highlightIndex' =
                 IF shift THEN (g_highlightIndex - 1) % n
                 ELSE (g_highlightIndex + 1) % n
            /\ g_appWindows' = g_appWindows
            /\ g_minimizedWindows' = g_minimizedWindows
            /\ PlainCycling']_vars

\* the highlight is on the last of three windows in plain Cycling
C9_Witness ==
    /\ lastMsg = "WM_KEYDOWN"
    /\ PlainCycling
    /\ Len(g_appWindows) + Len(g_minimizedWindows) = 3
    /\ g_highlightIndex = 2

\* C10: Enter with highlighted index k asks for the activation of
\* g_appWindows[k] if k is below the length of that list and of
\* g_minimizedWindows[k - length] otherwise, and hides the overlay, which
\* leaves the selector inactive.
C10_EnterActivates ==
    [][(g_bGridVisible /\ g_highlightIndex >= 0
          /\ KeyStep(KeyInput("VK_RETURN", FALSE, FALSE)))
       => LET k == g_highlightIndex
              n == Len(g_appWindows)
          IN /\ k < n + Len(g_minimizedWindows)
             /\ lastOut' = Out("activate",
                              IF k < n THEN g_appWindows[k + 1].hwnd
                              ELSE g_minimizedWindows[k - n + 1].hwnd)
             /\ ~g_bGridVisible'
             /\ ~SelectorActive']_vars

\* the minimized window of the rich desktop, listed behind the non-minimized
\* ones, was activated
C10_Witness ==
    /\ lastMsg = "WM_KEYDOWN"
    /\ ~g_bGridVisible
    /\ lastOut = Out("activate", 4)

\* a character with upper case folded to lower case
FoldCase(c) == IF c \in 65..90 THEN c + 32 ELSE c

\* title contains f as a substring, letter case ignored
TitleHas(title, f) ==
    \E k \in 0..(Len(title) - Len(f)) :
        \A i \in 1..Len(f) : FoldCase(title[k + i]) = FoldCase(f[i])

\* the entries of a catalog list whose title contains f, in catalog order
CatalogMatches(seq, f) ==
    LET Keeps(aw) == TitleHas(aw.title, f) IN SelectSeq(seq, Keeps)

\* C11: a letter appended to the filter in selector mode leaves displayed
\* exactly the entries of the full lists (occluded windows included) whose
\* title contains the filter, letter case ignored, in the order of the full
\* lists; the highlighted index is 0 if any entry matches and none otherwise.
C11_FilterShowsMatches ==
    [][(g_bGridVisible /\ ~g_bScrollMode /\ SelectorActive
          /\ lastMsg' = "WM_CHAR")
       => \A ch \in TypedLetters :
            CharStep(ch)
            => LET f == Append(g_tabSearchStr, ch) IN
               /\ g_tabSearchStr' = f
               /\ g_allAppWindows' = g_allAppWindows
               /\ g_allMinimizedWindows' = g_allMinimizedWindows
               /\ g_appWindows' = CatalogMatches(g_allAppWindows, f)
               /\ g_minimizedWindows' = CatalogMatches(g_allMinimizedWindows, f)
               /\ g_highlightIndex' =
                    IF g_appWindows' # << >> \/ g_minimizedWindows' # << >>
                    THEN 0 ELSE -1]_vars

\* from plain Cycling the filter "b" brought in the fully occluded "hb" next
\* to "Ab" and "ba" and dropped the minimized "Za"
C11_Witness ==
    /\ lastMsg = "WM_CHAR"
    /\ ~g_bTabTextMode
    /\ g_tabSearchStr = << 98 >>
    /\ { g_appWindows[i].hwnd : i \in DOMAIN g_appWindows } = { 1, 2, 3 }
    /\ \E i \in DOMAIN g_appWindows :
         g_appWindows[i].hwnd = 3 /\ g_appWindows[i].visibleArea = 0
    /\ Len(g_allMinimizedWindows) = 1
    /\ g_minimizedWindows = << >>
    /\ g_highlightIndex = 0

\* the cells of the m-th monitor: those whose label starts with its prefix
CellsOf(m) ==
    { i \in DOMAIN g_cells : g_cells[i].label[1] = g_monitors[m].prefix }

\* two rectangles share a pixel
Overlap(r1, r2) ==
    /\ r1.left < r2.right /\ r2.left < r1.right
    /\ r1.top < r2.bottom /\ r2.top < r1.bottom

\* C12: within each monitor the cells are pairwise non-overlapping, all
\* have the same width and height, and each lies inside the monitor's
\* rectangle.
C12_UniformTiling ==
    pc = "done" =>
        \A m \in DOMAIN g_monitors :
            LET mon == g_monitors[m].rcMonitor IN
            \A i \in CellsOf(m) :
                LET ri == g_cells[i].rect IN
                /\ mon.left <= ri.left /\ ri.right <= mon.right
                /\ mon.top <= ri.top /\ ri.bottom <= mon.bottom
                /\ ri.left < ri.right /\ ri.top < ri.bottom
                /\ \A j \in CellsOf(m) :
                     LET rj == g_cells[j].rect IN
                     /\ rj.right - rj.left = ri.right - ri.left
                     /\ rj.bottom - rj.top = ri.bottom - ri.top
                     /\ i # j => ~Overlap(ri, rj)

\* two 1920 x 1080 monitors were tiled into 22 x 12 cells of 87 x 90 each
C12_Witness ==
    /\ pc = "done"
    /\ Len(g_monitors) = 2
    /\ Cardinality(CellsOf(1)) = 264 /\ Cardinality(CellsOf(2)) = 264
    /\ g_cells[528].rect = Rect(3747, 990, 3834, 1080)

\* C13: for each monitor every pixel of its rectangle lies in one of its
\* cells.
C13_CompleteTiling ==
    pc = "done" =>
        \A m \in DOMAIN g_monitors :
            LET mon == g_monitors[m].rcMonitor IN
            \A x \in mon.left..(mon.right - 1), y \in mon.top..(mon.bottom - 1) :
                \E i \in CellsOf(m) :
                    /\ g_cells[i].rect.left <= x /\ x < g_cells[i].rect.right
                    /\ g_cells[i].rect.top <= y /\ y < g_cells[i].rect.bottom

OffCenter == { 0, 1, 2, 3, 5, 6, 7, 8 }

\* C14: in every cell the eight off-center sub-points (indices 0-3 and 5-8)
\* are pairwise distinct and lie strictly inside the cell's rectangle.
C14_SubPointsInside ==
    pc = "done" =>
        \A i \in DOMAIN g_cells :
            LET cell == g_cells[i] IN
            \A a \in OffCenter :
                /\ cell.rect.left < cell.subPoints[a].x
                /\ cell.subPoints[a].x < cell.rect.right
                /\ cell.rect.top < cell.subPoints[a].y
                /\ cell.subPoints[a].y < cell.rect.bottom
                /\ \A b \in OffCenter :
                       a # b => cell.subPoints[a] # cell.subPoints[b]

\* The grid of the 50 x 50 monitor next to a 2560 x 1440 one at 144 DPI is
\* built: the small monitor's single cell has sub-cells of 16 pixels.
C14_Witness ==
    /\ pc = "done"
    /\ Len(g_monitors) = 2
    /\ g_cells # << >>
    /\ g_cells[1].rect = Rect(0, 0, 50, 50)
    /\ g_cells[1].subPoints[0] = Point(8, 8)
    /\ g_cells[1].subPoints[8] = Point(40, 40)

\* C15: a fourth letter typed after the label of a cell moves the pointer to
\* the sub-point 0, 1, 2, 3, 5, 6, 7, 8 of that cell for a, b, c, d, e, f, g,
\* h, the eight indices being distinct; any other letter moves it to the
\* cell's center field, so sub-point 4 is the target of no letter.
C15_SubPointMapping ==
    [][(GridTypingMode /\ Len(g_typedChars) = 3 /\ lastMsg' = "WM_CHAR"
          /\ FindCell(g_typedChars) # 0)
       => \A ch \in TypedLetters :
            CharStep(ch)
            => LET cell == g_cells[FindCell(g_typedChars)]
                   index == << 0, 1, 2, 3, 5, 6, 7, 8 >>
               IN /\ ch \in 97..104
                       => cursorPos' = cell.subPoints[index[ch - 96]]
                  /\ ch \notin 97..104 => cursorPos' = cell.center
                  /\ cell.subPoints[4] # cell.center
                       => cursorPos' # cell.subPoints[4]
                  /\ \A a, b \in 97..104 :
                       /\ GetSubPointIndex(a) \in OffCenter
                       /\ a # b => GetSubPointIndex(a) # GetSubPointIndex(b)]_vars

\* "aaa" then "h" was typed on the 100 x 100 monitor: the pointer is at
\* sub-point 8 of the cell, which differs from its center and sub-point 4
C15_Witness ==
    /\ lastMsg = "WM_CHAR"
    /\ g_bGridVisible
    /\ g_typedChars = << >>
    /\ Len(g_cells) = 1
    /\ g_cells[1].label = << 97, 97, 97 >>
    /\ g_cells[1].subPoints[4] # g_cells[1].center
    /\ cursorPos = g_cells[1].subPoints[8]
    /\ cursorPos = Point(82, 82)

\* the number of columns of a grid, read off its cells
ColumnsOf(cells) ==
    LET cols == { g_cells[i].gridCol : i \in cells }
    IN 1 + CHOOSE c \in cols : \A d \in cols : d <= c

\* every cell of every monitor is labelled letter(m) + letter(i / 26) +
\* letter(i % 26) with i = row * columns + column, and the cells of a
\* monitor are stored in increasing i, starting at 0
RowMajorLabels ==
    \A m \in DOMAIN g_monitors :
        LET cells == CellsOf(m)
            columns == ColumnsOf(cells)
            IndexOf(i) == g_cells[i].gridRow * columns + g_cells[i].gridCol
        IN \A i \in cells :
            /\ g_cells[i].gridCol < columns
            /\ Len(g_cells[i].label) = 3
            /\ g_cells[i].label
                 = << 96 + m, 97 + (IndexOf(i) \div 26), 97 + (IndexOf(i) % 26) >>
            /\ IF i - 1 \in cells THEN IndexOf(i) = IndexOf(i - 1) + 1
                                  ELSE IndexOf(i) = 0

TwoFullHD ==
    sysMonitors = << SysMonitor(Rect(0, 0, 1920, 1080), 96, FALSE),
                     SysMonitor(Rect(1920, 0, 3840, 1080), 96, FALSE) >>

\* two 1920 x 1080 monitors at 96 DPI: 22 x 12 = 264 cells each, the first
\* labelled aaa, the second monitor's labels starting with b
TwoFullHDGrid ==
    /\ Len(g_monitors) = 2
    /\ Len(g_cells) = 528
    /\ \A m \in 1..2 :
         /\ Cardinality(CellsOf(m)) = 264
         /\ ColumnsOf(CellsOf(m)) = 22
         /\ \A i \in CellsOf(m) : g_cells[i].gridRow <= 11
    /\ CellsOf(1) = 1..264
    /\ g_cells[1].label = << 97, 97, 97 >>
    /\ \A i \in 265..528 : g_cells[i].label[1] = 98

\* C16 as stated: row-major three-letter labels; on two 1920 x 1080 monitors
\* at 96 DPI, 264 cells per monitor, first label aaa and last label akn on
\* monitor 0, prefix b on monitor 1.
C16_Original ==
    pc = "done" =>
        /\ RowMajorLabels
        /\ TwoFullHD => /\ TwoFullHDGrid
                        /\ g_cells[264].label = << 97, 107, 110 >>

\* C16 amended: row-major three-letter labels; on two 1920 x 1080 monitors
\* at 96 DPI, 264 cells per monitor, first label aaa and last label akd
\* (index 263 = 10 * 26 + 3) on monitor 0, prefix b on monitor 1.
C16_RowMajorLabels ==
    pc = "done" =>
        /\ RowMajorLabels
        /\ TwoFullHD => /\ TwoFullHDGrid
                        /\ g_cells[264].label = << 97, 107, 100 >>

\* the grid of two 1920 x 1080 monitors is built; the last cell of the first
\* monitor sits in row 11, column 21
C16_Witness ==
    /\ pc = "done"
    /\ TwoFullHD
    /\ Len(g_cells) = 528
    /\ g_cells[264].gridRow = 11
    /\ g_cells[264].gridCol = 21
    /\ g_cells[265].gridRow = 0

\* C17: after every event the address buffer holds lowercase letters only
\* and at most three of them: the fourth character is consumed by the step
\* that appends it, so the buffer is never left at length 4 or more.
C17_BufferBounded ==
    /\ Len(g_typedChars) \in 0..4
    /\ Len(g_typedChars) # 4
    /\ \A i \in DOMAIN g_typedChars : g_typedChars[i] \in 97..122

\* "aaa" then "a" was typed on the 100 x 100 monitor: the pointer went to
\* sub-point 0 of the cell and the buffer is empty again
C17_Witness ==
    /\ lastMsg = "WM_CHAR"
    /\ g_bGridVisible
    /\ timerReset
    /\ g_typedChars = << >>
    /\ Len(g_cells) = 1
    /\ cursorPos = g_cells[1].subPoints[0]
    /\ cursorPos = Point(16, 16)

\* C18: whenever the selector is in plain cycling with a highlighted index
\* (overlay shown, no filter, "all windows" flag false), the auto-promote
\* timer TIMER_ID_TAB_TEXT is armed.
C18_TimerArmedInCycling == PlainCycling => timerTabText

\* C19: when TIMER_ID_TAB_TEXT fires in cycling with a filter typed, the
\* promotion to "all windows" leaves the filter string unchanged and displays
\* only the catalog entries whose title matches it.
C19_PromotionKeepsFilter ==
    [][(g_bGridVisible /\ g_highlightIndex >= 0 /\ ~g_bTabTextMode
          /\ g_tabSearchStr # << >> /\ lastMsg' = "WM_TIMER_TAB_TEXT")
       => /\ g_bTabTextMode'
          /\ g_tabSearchStr' = g_tabSearchStr
          /\ g_appWindows' = CatalogMatches(g_allAppWindows, g_tabSearchStr)
          /\ g_minimizedWindows'
               = CatalogMatches(g_allMinimizedWindows, g_tabSearchStr)]_vars

C21_CycleSequence ==
    PlainCycling
    => /\ g_appWindows = VisibleOnly(g_allAppWindows)
       /\ g_minimizedWindows = g_allMinimizedWindows

\* C22: every step that shows the hidden overlay empties the address buffer,
\* queries the monitors again and rebuilds the cells and the label map from
\* the monitors present at that moment.
C22_ShowRebuildsGrid ==
    [][(~g_bGridVisible /\ g_bGridVisible')
       => /\ g_typedChars' = << >>
          /\ g_monitors' = EnumDisplayMonitors(<< >>, sysMonitors)
          /\ g_cells' = AllCells(g_monitors')
          /\ g_gridMap' = GridMapOf(g_cells')]_vars

\* C23: in no reachable state are two of the mouse-move flag, the scroll
\* flag and selector-active (index highlighted, "all windows" flag set or
\* filter non-empty) true together.
C23_OneModeAtATime ==
    /\ ~(g_bMouseMoveMode /\ g_bScrollMode)
    /\ ~(g_bMouseMoveMode /\ SelectorActive)
    /\ ~(g_bScrollMode /\ SelectorActive)

\* C24: on a grid with cells, whenever the address buffer holds exactly
\* three characters they are the label of an existing cell.
C24_ThreeCharsNameACell ==
    (g_cells # << >> /\ Len(g_typedChars) = 3)
    => \E i \in DOMAIN g_cells : g_cells[i].label = g_typedChars

\* C25: when a fourth letter is typed in grid-typing or mouse-move mode after
\* the three-character label of an existing cell, the pointer moves to the
\* off-center sub-point of that cell the letter names if the letter is in
\* a..h and to the cell's center otherwise, and the address buffer is empty
\* afterwards.
C25_FourthLetterResolves ==
    [][(g_bGridVisible /\ ~g_bScrollMode /\ ~SelectorActive
          /\ Len(g_typedChars) = 3 /\ lastMsg' = "WM_CHAR"
          /\ FindCell(g_typedChars) # 0)
       => \A ch \in TypedLetters :
            CharStep(ch)
            => LET cell == g_cells[FindCell(g_typedChars)] IN
               /\ g_typedChars' = << >>
               /\ cursorPos' =
                    IF ch <= 100 THEN cell.subPoints[ch - 97]
                    ELSE IF ch <= 104 THEN cell.subPoints[ch - 96]
                    ELSE cell.center]_vars

\* "aaa" then "e" was typed on the 100 x 100 monitor: the pointer is at
\* sub-point 5 of the cell, right of its center, and the buffer is empty
C25_Witness ==
    /\ lastMsg = "WM_CHAR"
    /\ g_bGridVisible
    /\ g_typedChars = << >>
    /\ Len(g_cells) = 1
    /\ g_cells[1].center = Point(50, 50)
    /\ cursorPos = g_cells[1].subPoints[5]
    /\ cursorPos = Point(82, 49)

\* C26: when TIMER_ID_RESET expires while the overlay is in grid-typing or
\* mouse-move mode with a non-empty address buffer, the buffer becomes empty,
\* the pointer stays where it is, the mode is unchanged and the timer is no
\* longer pending.
C26_ResetTimerClearsBuffer ==
    [][(g_bGridVisible /\ ~g_bScrollMode /\ ~SelectorActive
          /\ g_typedChars # << >> /\ lastMsg' = "WM_TIMER_RESET")
       => /\ g_typedChars' = << >>
          /\ cursorPos' = cursorPos
          /\ ~timerReset'
          /\ g_bGridVisible'
          /\ g_bMouseMoveMode' = g_bMouseMoveMode]_vars

\* the timer expired on the 100 x 100 monitor after the pointer had been
\* sent to the cell's center: the buffer is empty, the pointer still there
C26_Witness ==
    /\ lastMsg = "WM_TIMER_RESET"
    /\ g_bGridVisible
    /\ ~timerReset
    /\ g_typedChars = << >>
    /\ Len(g_cells) = 1
    /\ cursorPos = g_cells[1].center
    /\ cursorPos = Point(50, 50)

\* C27: every keystroke handled in grid-typing mode, a letter or a Backspace
\* that removes a character, leaves TIMER_ID_RESET armed anew.
C27_KeystrokeRearmsTimer ==
    [][GridTypingMode
       => /\ lastMsg' = "WM_CHAR"
               => \A ch \in TypedLetters : CharStep(ch) => timerReset'
          /\ (lastMsg' = "WM_KEYDOWN" /\ g_typedChars # << >>)
               => (KeyStep(KeyInput("VK_BACK", FALSE, FALSE)) => timerReset')]_vars

\* C28: Backspace in grid-typing mode removes exactly the last character of
\* a non-empty address buffer and changes nothing of an empty one; in both
\* cases the pointer, the selection state, the window lists and the mode
\* are as before.
C28_BackspaceShortensBuffer ==
    [][(GridTypingMode /\ lastMsg' = "WM_KEYDOWN"
          /\ KeyStep(KeyInput("VK_BACK", FALSE, FALSE)))
       => /\ g_typedChars' =
               IF g_typedChars = << >> THEN << >>
               ELSE SubSeq(g_typedChars, 1, Len(g_typedChars) - 1)
          /\ cursorPos' = cursorPos
          /\ g_highlightIndex' = g_highlightIndex
          /\ g_bTabTextMode' = g_bTabTextMode
          /\ g_tabSearchStr' = g_tabSearchStr
          /\ g_appWindows' = g_appWindows
          /\ g_minimizedWindows' = g_minimizedWindows
          /\ g_allAppWindows' = g_allAppWindows
          /\ g_allMinimizedWindows' = g_allMinimizedWindows
          /\ GridTypingMode']_vars

\* Backspace was pressed after the label of the second monitor's cell: the
\* buffer holds its first two letters and the pointer is still at the
\* cell's center
C28_Witness ==
    /\ lastMsg = "WM_KEYDOWN"
    /\ GridTypingMode
    /\ g_typedChars = << 98, 97 >>
    /\ << 98, 97, 97 >> \in DOMAIN g_gridMap
    /\ cursorPos = g_gridMap[<< 98, 97, 97 >>]
    /\ cursorPos # HandPoint

HwndsOf(seq) == { seq[i].hwnd : i \in DOMAIN seq }

\* C29: Tab pressed in grid-typing or mouse-move mode with no selection
\* active refreshes the catalog from the windows now on the desktop; if a
\* window with visible area or a minimized window exists, the selector is in
\* cycling at index 0 with the "all windows" flag false, no filter and
\* TIMER_ID_TAB_TEXT armed; otherwise the selector stays inactive.
C29_TabEntersCycling ==
    [][(g_bGridVisible /\ ~g_bScrollMode /\ ~SelectorActive
          /\ lastMsg' = "WM_KEYDOWN"
          /\ KeyStep(KeyInput("VK_TAB", FALSE, FALSE)))
       => /\ HwndsOf(g_allAppWindows')
               = { w.hwnd : w \in { sysWindows[i] : i \in { j \in DOMAIN sysWindows :
                       Eligible(sysWindows[j]) /\ ~sysWindows[j].iconic } } }
          /\ HwndsOf(g_allMinimizedWindows')
               = { w.hwnd : w \in { sysWindows[i] : i \in { j \in DOMAIN sysWindows :
                       Eligible(sysWindows[j]) /\ sysWindows[j].iconic } } }
          /\ g_appWindows' = VisibleOnly(g_allAppWindows')
          /\ g_minimizedWindows' = g_allMinimizedWindows'
          /\ g_typedChars' = g_typedChars
          /\ IF g_appWindows' # << >> \/ g_minimizedWindows' # << >>
             THEN /\ g_highlightIndex' = 0
                  /\ ~g_bTabTextMode'
                  /\ g_tabSearchStr' = << >>
                  /\ timerTabText'
             ELSE ~SelectorActive']_vars

\* Tab was pressed in mouse-move mode: the selector cycles at index 0 over
\* the desktop's minimized window with the auto-promote timer armed
C29_Witness ==
    /\ lastMsg = "WM_KEYDOWN"
    /\ g_bGridVisible
    /\ g_bMouseMoveMode
    /\ g_highlightIndex = 0
    /\ ~g_bTabTextMode
    /\ g_tabSearchStr = << >>
    /\ timerTabText
    /\ g_appWindows = << >>
    /\ HwndsOf(g_minimizedWindows) = { 10 }

\* what '*' does while a selection is active and the "all windows" flag is
\* false: flag set, filter emptied, full catalog displayed, auto-promote
\* timer cancelled
StarPromotes ==
    /\ g_bTabTextMode'
    /\ g_tabSearchStr' = << >>
    /\ g_appWindows' = g_allAppWindows
    /\ g_minimizedWindows' = g_allMinimizedWindows
    /\ g_allAppWindows' = g_allAppWindows
    /\ g_allMinimizedWindows' = g_allMinimizedWindows
    /\ ~timerTabText'

\* C30 as stated: '*' typed while the overlay is shown promotes to "all
\* windows" if a selection is active and the flag is false, and changes no
\* state if the flag is already set or no selector is active.
C30_Original ==
    [][(g_bGridVisible /\ lastMsg' = "WM_CHAR" /\ 42 \in env.chars
          /\ CharStep(42))
       => IF (g_highlightIndex >= 0 \/ g_tabSearchStr # << >>)
             /\ ~g_bTabTextMode
          THEN StarPromotes
          ELSE Cur' = Cur]_vars

\* C30 amended: the same for '*' typed outside scroll mode; in scroll mode,
\* where no selector is active, '*' leaves scroll mode and hides the overlay.
C30_StarPromotes ==
    [][(g_bGridVisible /\ lastMsg' = "WM_CHAR" /\ 42 \in env.chars
          /\ CharStep(42))
       => IF g_bScrollMode
          THEN ~SelectorActive /\ ~g_bGridVisible' /\ ~g_bScrollMode'
          ELSE IF (g_highlightIndex >= 0 \/ g_tabSearchStr # << >>)
                  /\ ~g_bTabTextMode
          THEN StarPromotes
          ELSE Cur' = Cur]_vars

\* '*' was typed while a filter was active in cycling: the filter is gone,
\* the flag is set and the fully occluded window is displayed as well
C30_Witness ==
    /\ lastMsg = "WM_CHAR"
    /\ g_bTabTextMode
    /\ g_tabSearchStr = << >>
    /\ ~timerTabText
    /\ g_highlightIndex = 0
    /\ HwndsOf(g_appWindows) = { 1, 2, 3 }
    /\ g_appWindows = g_allAppWindows
    /\ Len(g_minimizedWindows) = 1

IdleMode ==
    /\ ~g_bGridVisible
    /\ ~g_bScrollMode
    /\ ~g_bMouseMoveMode
    /\ ~SelectorActive
    /\ g_typedChars = << >>

\* C32: in scroll mode PageUp and PageDown keep the mode and inject one wheel
\* event each (up for PageUp, down for PageDown); every other key, every
\* typed character and every pointer movement hides the overlay and leaves
\* it idle, in none of the other modes.
C32_ScrollIsOneShot ==
    [][(g_bGridVisible /\ g_bScrollMode)
       => /\ lastMsg' = "WM_KEYDOWN"
               => \A k \in env.keys :
                    KeyStep(k)
                    => IF k.wParam \in { "VK_PRIOR", "VK_NEXT" }
                       THEN /\ g_bGridVisible' /\ g_bScrollMode'
                            /\ lastOut' = Out("wheel", IF k.wParam = "VK_PRIOR"
                                                       THEN 3 ELSE -3)
                            /\ g_bMouseMoveMode' = g_bMouseMoveMode
                            /\ g_typedChars' = g_typedChars
                       ELSE IdleMode'
          /\ lastMsg' \in { "WM_CHAR", "HOOK_MOUSE" } => IdleMode']_vars

\* Escape was pressed in scroll mode: the overlay is hidden and idle (the
\* input-transparent style set on entering scroll mode is still there)
C32_Witness ==
    /\ lastMsg = "WM_KEYDOWN"
    /\ IdleMode
    /\ exTransparent
    /\ ~g_hScrollMouseHook

\* C33: PageUp or PageDown pressed in window-select mode enters scroll mode:
\* the scroll flag and the input-transparent style are set and a wheel event
\* is injected.
C33_PageKeysFromSelector ==
    [][(g_bGridVisible /\ ~g_bScrollMode /\ SelectorActive
          /\ lastMsg' = "WM_KEYDOWN")
       => \A key \in { "VK_PRIOR", "VK_NEXT" } :
            KeyStep(KeyInput(key, FALSE, FALSE))
            => /\ g_bScrollMode'
               /\ exTransparent'
               /\ lastOut' = Out("wheel", IF key = "VK_PRIOR" THEN 3 ELSE -3)]_vars

\* the Z-position (1 = front) of the window with handle h
ZPos(h) == CHOOSE i \in DOMAIN sysWindows : sysWindows[i].hwnd = h

\* C34: after a refresh the cycle list holds exactly the enumerated
\* non-minimized windows with visibleArea > 0, each once, ordered by
\* visibleArea descending, windows of equal visibleArea in front-to-back
\* Z-order.
C34_StableAreaOrder ==
    pc = "refreshed" =>
        /\ HwndsOf(g_appWindows)
             = { sysWindows[i].hwnd : i \in { j \in DOMAIN sysWindows :
                   /\ Eligible(sysWindows[j]) /\ ~sysWindows[j].iconic
                   /\ UncoveredPixels(j) # {} } }
        /\ Len(g_appWindows) = Cardinality(HwndsOf(g_appWindows))
        /\ \A i, j \in DOMAIN g_appWindows :
             i < j =>
               /\ g_appWindows[i].visibleArea >= g_appWindows[j].visibleArea
               /\ g_appWindows[i].visibleArea = g_appWindows[j].visibleArea
                    => ZPos(g_appWindows[i].hwnd) < ZPos(g_appWindows[j].hwnd)

\* C35: after a refresh the full list holds the enumerated non-minimized
\* windows, each once, in front-to-back Z-order.
C35_AllWindowsInZOrder ==
    pc = "refreshed" =>
        /\ HwndsOf(g_allAppWindows)
             = { sysWindows[i].hwnd : i \in { j \in DOMAIN sysWindows :
                   Eligible(sysWindows[j]) /\ ~sysWindows[j].iconic } }
        /\ Len(g_allAppWindows) = Cardinality(HwndsOf(g_allAppWindows))
        /\ \A i, j \in DOMAIN g_allAppWindows :
             i < j => ZPos(g_allAppWindows[i].hwnd) < ZPos(g_allAppWindows[j].hwnd)

\* C36: with no monitors enumerated the grid and the label map are empty
\* and no typed character moves the pointer; with no eligible window on the
\* desktop Tab and Shift+Tab, pressed outside scroll mode with the selector
\* inactive, leave the selector inactive (index none, AllWindows false,
\* filter empty) and the overlay in the mode it was in.
C36_DegradedTopologyNoOp ==
    [][/\ g_monitors = << >>
          => /\ g_cells = << >> /\ DOMAIN g_gridMap = {}
             /\ lastMsg' = "WM_CHAR" => cursorPos' = cursorPos
       /\ (/\ g_bGridVisible /\ ~g_bScrollMode /\ ~SelectorActive
           /\ lastMsg' = "WM_KEYDOWN"
           /\ \A i \in DOMAIN sysWindows : ~Eligible(sysWindows[i]))
          => \A sh \in BOOLEAN :
               KeyStep(KeyInput("VK_TAB", sh, FALSE))
                 => /\ g_highlightIndex' = -1 /\ ~g_bTabTextMode'
                    /\ g_tabSearchStr' = << >>
                    /\ g_bGridVisible' /\ ~g_bScrollMode'
                    /\ g_bMouseMoveMode' = g_bMouseMoveMode
                    /\ g_typedChars' = g_typedChars]_vars

C36_Witness ==
    /\ lastMsg = "WM_KEYDOWN" /\ g_bGridVisible /\ ~g_bScrollMode
    /\ g_monitors = << >> /\ g_cells = << >> /\ Len(g_typedChars) = 3
    /\ sysWindows = << >> /\ ~SelectorActive
    /\ g_appWindows = << >> /\ g_minimizedWindows = << >>

\* C37: while the overlay is shown outside scroll mode with the selector
\* inactive, a WM_CHAR whose character is not a lowercase letter a-z changes
\* neither the address buffer, the pointer, the mode flags, the selector
\* state nor the inactivity timer.
C37_NonLetterIgnored ==
    [][(g_bGridVisible /\ ~g_bScrollMode /\ ~SelectorActive
          /\ lastMsg' = "WM_CHAR")
       => \A ch \in env.chars \ TypedLetters :
            CharStep(ch)
              => /\ g_typedChars' = g_typedChars
                 /\ cursorPos' = cursorPos
                 /\ g_bGridVisible' /\ ~g_bScrollMode' /\ ~SelectorActive'
                 /\ g_bMouseMoveMode' = g_bMouseMoveMode
                 /\ g_bCursorHidden' = g_bCursorHidden
                 /\ timerReset' = timerReset
                 /\ timerTabText' = timerTabText]_vars

C37_Witness ==
    /\ lastMsg = "WM_CHAR" /\ GridTypingMode
    /\ g_typedChars = << >> /\ ~timerReset

\* C38: the expiry of the inactivity timer (TIMER_ID_RESET) leaves the
\* selector as it was: the filter string, both displayed window lists, the
\* highlighted index and the AllWindows flag are the same before and after.
C38_ExpiryKeepsSelector ==
    [][lastMsg' = "WM_TIMER_RESET"
       => /\ g_tabSearchStr' = g_tabSearchStr
          /\ g_appWindows' = g_appWindows
          /\ g_minimizedWindows' = g_minimizedWindows
          /\ g_highlightIndex' = g_highlightIndex
          /\ g_bTabTextMode' = g_bTabTextMode]_vars

\* C39: whenever the scroll flag is false the overlay window has no
\* input-transparent style (WS_EX_TRANSPARENT) and no scroll mouse hook.
C39_ClickThroughOnlyInScroll ==
    ~g_bScrollMode => ~exTransparent /\ ~g_hScrollMouseHook

(***************************************************************************)
(* The cursor: the dispatch thread's HideCursor and RestoreCursor, and the  *)
(* detached AnimateCursorRestore threads, one statement per step.  A Sleep  *)
(* is a step like any other: it orders nothing between the threads.        *)
(***************************************************************************)
\* the loop bound of AnimateCursorRestore
ANIM_STEPS == 15

\* the size of frame i: quadratic ease-out from 128 down to 32
\* (eased = 1 - (1 - i/15)^2, size = 128 - (int)(96 * eased))
ScaledSize(i) ==
    LET size == 128 - ((96 * (225 - (ANIM_STEPS - i) * (ANIM_STEPS - i)))
                          \div 225)
    IN IF size < 32 THEN 32 ELSE size

\* the start-up state of the cursor specification: no overlay, no topology
InitCursor ==
    /\ Init
    /\ env.monitors = << >>
    /\ sysWindows = << >>

cursorFixed ==
    << g_bGridVisible, g_bMouseMoveMode, g_bScrollMode, g_hScrollMouseHook,
       g_bTabTextMode, g_typedChars, g_gridMap, g_monitors, g_cells,
       g_highlightIndex, g_tabSearchStr, sysMonitors, sysWindows, cursorPos,
       timerReset, timerTabText, exTransparent, lastMsg, lastOut, nArrow, env,
       bMon, gridCols, gridRows, bRow, bCol, bIndex, selectorVars >>

\* HideCursor is entered (LowLevelKeyboardProc on a typing key): it returns
\* at once if the cursor is hidden; it clears the animation flag and goes to
\* sleep if an animation runs; else it goes on to the blank cursors
HideCursorCall ==
    /\ pc = "off"
    /\ ~g_bCursorHidden
    /\ IF g_bCursorAnimating
       THEN g_bCursorAnimating' = FALSE /\ pc' = "hide_sleep"
       ELSE g_bCursorAnimating' = FALSE /\ pc' = "hide_blank"
    /\ UNCHANGED << g_bCursorHidden, sysCursors, anim >>
    /\ UNCHANGED cursorFixed

\* HideCursor: Sleep(100) is over
HideCursorSleep ==
    /\ pc = "hide_sleep"
    /\ pc' = "hide_blank"
    /\ UNCHANGED << g_bCursorHidden, cursorVars >>
    /\ UNCHANGED cursorFixed

\* HideCursor: SetSystemCursor(blank) for every cursor id
HideCursorBlank ==
    /\ pc = "hide_blank"
    /\ sysCursors' = Cursors("blank", 0)
    /\ pc' = "hide_flag"
    /\ UNCHANGED << g_bCursorHidden, g_bCursorAnimating, anim >>
    /\ UNCHANGED cursorFixed

\* HideCursor: the mouse hook is installed, g_bCursorHidden = true
HideCursorReturn ==
    /\ pc = "hide_flag"
    /\ g_bCursorHidden' = TRUE
    /\ pc' = "off"
    /\ UNCHANGED cursorVars
    /\ UNCHANGED cursorFixed

\* RestoreCursor (LowLevelMouseProc on a mouse move while the cursor is
\* hidden): the flag is cleared and a detached thread is started
RestoreCursorCall ==
    /\ pc = "off"
    /\ g_bCursorHidden
    /\ \E t \in Threads :
         /\ anim[t].pc = "free"
         /\ \A u \in Threads : u < t => anim[u].pc # "free"
         /\ anim' = [anim EXCEPT ![t] = [pc |-> "start", i |-> 0]]
    /\ g_bCursorHidden' = FALSE
    /\ UNCHANGED << pc, g_bCursorAnimating, sysCursors >>
    /\ UNCHANGED cursorFixed

\* a step of thread t that changes only its position and counter
AnimGoto(t, to, i) ==
    anim' = [anim EXCEPT ![t] = [pc |-> to, i |-> i]]

\* AnimateCursorRestore: g_bCursorAnimating = true
AnimStart(t) ==
    /\ anim[t].pc = "start"
    /\ g_bCursorAnimating' = TRUE
    /\ AnimGoto(t, "first", 0)
    /\ UNCHANGED << pc, g_bCursorHidden, sysCursors >>
    /\ UNCHANGED cursorFixed

\* AnimateCursorRestore: SetScaledCursors(startSize), then i = 1
AnimFirstFrame(t) ==
    /\ anim[t].pc = "first"
    /\ sysCursors' = Cursors("scaled", 128)
    /\ AnimGoto(t, "check", 1)
    /\ UNCHANGED << pc, g_bCursorHidden, g_bCursorAnimating >>
    /\ UNCHANGED cursorFixed

\* AnimateCursorRestore: i <= steps, and the first test of the flag
AnimCheck(t) ==
    /\ anim[t].pc = "check"
    /\ IF anim[t].i > ANIM_STEPS \/ ~g_bCursorAnimating
       THEN AnimGoto(t, "final", anim[t].i)
       ELSE AnimGoto(t, "sleep", anim[t].i)
    /\ UNCHANGED << pc, g_bCursorHidden, g_bCursorAnimating, sysCursors >>
    /\ UNCHANGED cursorFixed

\* AnimateCursorRestore: Sleep(delayMs) is over
AnimSleep(t) ==
    /\ anim[t].pc = "sleep"
    /\ AnimGoto(t, "recheck", anim[t].i)
    /\ UNCHANGED << pc, g_bCursorHidden, g_bCursorAnimating, sysCursors >>
    /\ UNCHANGED cursorFixed

\* AnimateCursorRestore: the test of the flag after the sleep
AnimRecheck(t) ==
    /\ anim[t].pc = "recheck"
    /\ IF ~g_bCursorAnimating
       THEN AnimGoto(t, "final", anim[t].i)
       ELSE AnimGoto(t, "frame", anim[t].i)
    /\ UNCHANGED << pc, g_bCursorHidden, g_bCursorAnimating, sysCursors >>
    /\ UNCHANGED cursorFixed

\* AnimateCursorRestore: SetScaledCursors(size), then i++
AnimFrame(t) ==
    /\ anim[t].pc = "frame"
    /\ sysCursors' = Cursors("scaled", ScaledSize(anim[t].i))
    /\ AnimGoto(t, "check", anim[t].i + 1)
    /\ UNCHANGED << pc, g_bCursorHidden, g_bCursorAnimating >>
    /\ UNCHANGED cursorFixed

\* AnimateCursorRestore: the test of the flag before the final step
AnimFinalCheck(t) ==
    /\ anim[t].pc = "final"
    /\ IF g_bCursorAnimating
       THEN AnimGoto(t, "defaults", 0)
       ELSE AnimGoto(t, "end", 0)
    /\ UNCHANGED << pc, g_bCursorHidden, g_bCursorAnimating, sysCursors >>
    /\ UNCHANGED cursorFixed

\* AnimateCursorRestore: SystemParametersInfo(SPI_SETCURSORS)
AnimDefaults(t) ==
    /\ anim[t].pc = "defaults"
    /\ sysCursors' = Cursors("default", 0)
    /\ AnimGoto(t, "end", 0)
    /\ UNCHANGED << pc, g_bCursorHidden, g_bCursorAnimating >>
    /\ UNCHANGED cursorFixed

\* AnimateCursorRestore: g_bCursorAnimating = false; the thread ends
AnimEnd(t) ==
    /\ anim[t].pc = "end"
    /\ g_bCursorAnimating' = FALSE
    /\ AnimGoto(t, "free", 0)
    /\ UNCHANGED << pc, g_bCursorHidden, sysCursors >>
    /\ UNCHANGED cursorFixed

\* the steps of the detached thread t
AnimateCursorRestore(t) ==
    \/ AnimStart(t)
    \/ AnimFirstFrame(t)
    \/ AnimCheck(t)
    \/ AnimSleep(t)
    \/ AnimRecheck(t)
    \/ AnimFrame(t)
    \/ AnimFinalCheck(t)
    \/ AnimDefaults(t)
    \/ AnimEnd(t)

NextCursor ==
    \/ HideCursorCall
    \/ HideCursorSleep
    \/ HideCursorBlank
    \/ HideCursorReturn
    \/ RestoreCursorCall
    \/ \E t \in Threads : AnimateCursorRestore(t)

SpecCursor == InitCursor /\ [][NextCursor]_vars

\* C40: while the cursor-hidden flag is true, no step of an animation thread
\* changes the system cursors.
C40_CancelIsEffective ==
    [][(g_bCursorHidden /\ anim' # anim) => sysCursors' = sysCursors]_vars

====
